---------------------------- MODULE Spec2Model ----------------------------
(***************************************************************************)
(* Ingestion pipeline of the RAG service: process_upload (validate, save,  *)
(* hash, load, split) followed by index_chunks (dedup check, insert        *)
(* document, batch_embed, insert chunks, mark completed), run by several   *)
(* request handlers against one shared upload directory and one shared     *)
(* document store.  Each store statement, each file operation and each     *)
(* call of the embedding backend is one atomic step; handlers interleave   *)
(* between steps (several server workers share the directory and the       *)
(* store).                                                                  *)
(*                                                                         *)
(* Text is modelled by its length: a file is a sequence of pages, a page   *)
(* is a record [t |-> tag of the content, n |-> number of characters of    *)
(* extracted text].  A filename is a sequence of tokens; a token is one    *)
(* character, or a run of letters such as "pdf" treated as one unit.       *)
(***************************************************************************)
EXTENDS Integers, Sequences, FiniteSets, TLC

VARIABLES
    up,               \* up[r]: the UploadFile of request r: [filename, bytes]
    pc,               \* pc[r]: position of request r in process_upload / index_chunks
    loc,              \* loc[r]: local variables of request r
    res,              \* res[r]: what the caller of the upload route receives
    hist,             \* hist[r]: history of request r (calls made, rows written)
    documents,        \* rows of table documents
    document_chunks,  \* rows of table document_chunks
    disk,             \* upload directory: a function from the names of the files in it to their content
    san,              \* sanitize_filename and the destination of save_upload, stand-alone
    emb,              \* the embedding provider of one process: cache, _warmed_up, callers
    del,              \* the calls of delete_document_by_id made so far, with what they returned
    rq,               \* rq[q]: a chat or summary request, from the route to the end of its stream
    fx,               \* one application of a function of the code to an argument
    tpl,              \* PromptRegistry: the template cache and the templates handed out
    rl                \* the rate limiter: clock, buckets and the requests decided so far

vars == <<up, pc, loc, res, hist, documents, document_chunks, disk, san, emb, del, rq,
          fx, tpl, rl>>

(***************************************************************************)
(* Bounds of the model.                                                    *)
(***************************************************************************)
\* longest raw filename (in tokens) given to sanitize_filename stand-alone
MaxNameLen == 4

\* the request handlers
Requests == {"r1", "r2"}

(***************************************************************************)
(* Configuration (settings) and program constants.                         *)
(***************************************************************************)
MAX_FILE_SIZE == 10485760
BASE_CHUNK == 800
MIN_CHARS == 100
OVERLAP == 200
BATCH_SIZE == 32
MAX_RETRIES == 3
NAME_CAP == 255
MIN_PAGE_CHARS == 10

\* a missing filename (None or "")
NoName == <<>>
\* a local variable not assigned yet; a metadata key not set yet
Unset == <<>>
NoIndex == 0 - 1

Min(a, b) == IF a < b THEN a ELSE b
Max(a, b) == IF a > b THEN a ELSE b

(***************************************************************************)
(* Filenames.                                                              *)
(***************************************************************************)
\* \w of the regular expression: letters, digits, underscore
WordTok == {"a", "b", "_", "pdf", "PDF", "txt", "jpg", "docx", "doc", "rtf", "ppt", "pptx"}
\* \s of the regular expression
SpaceTok == {" "}

ALLOWED_EXT == { <<".", "txt">>, <<".", "rtf">>, <<".", "doc">>, <<".", "docx">>,
                 <<".", "pdf">>, <<".", "ppt">>, <<".", "pptx">> }

\* str.lower() on one token
LowerTok(c) == IF c = "PDF" THEN "pdf" ELSE c

Lower(s) == [i \in 1..Len(s) |-> LowerTok(s[i])]

\* str.strip(): leading and trailing whitespace removed
RECURSIVE LStrip(_)
LStrip(s) == IF s # <<>> /\ Head(s) \in SpaceTok THEN LStrip(Tail(s)) ELSE s

RECURSIVE RStrip(_)
RStrip(s) ==
    IF s # <<>> /\ s[Len(s)] \in SpaceTok THEN RStrip(SubSeq(s, 1, Len(s) - 1)) ELSE s

Strip(s) == RStrip(LStrip(s))

\* str.replace("..", ""): non-overlapping occurrences, left to right, one pass
RECURSIVE RemoveDotDot(_)
RemoveDotDot(s) ==
    IF Len(s) >= 2 /\ s[1] = "." /\ s[2] = "."
    THEN RemoveDotDot(SubSeq(s, 3, Len(s)))
    ELSE IF s = <<>> THEN <<>>
    ELSE <<Head(s)>> \o RemoveDotDot(Tail(s))

\* str.replace(c, d) for one character c
ReplaceTok(s, c, d) == [i \in 1..Len(s) |-> IF s[i] = c THEN d ELSE s[i]]

\* re.sub(r"[^\w\s.-]", "", name): every other character is deleted
KeepTok(c) == c \in WordTok \/ c \in SpaceTok \/ c = "." \/ c = "-"

RECURSIVE ReSubUnsafe(_)
ReSubUnsafe(s) ==
    IF s = <<>> THEN <<>>
    ELSE IF KeepTok(Head(s)) THEN <<Head(s)>> \o ReSubUnsafe(Tail(s))
    ELSE ReSubUnsafe(Tail(s))

sanitize_filename(name) ==
    LET n1 == Strip(name)
        n2 == RemoveDotDot(n1)
        n3 == ReplaceTok(n2, "/", "_")
        n4 == ReplaceTok(n3, "\\", "_")
        n5 == ReSubUnsafe(n4)
    IN  SubSeq(n5, 1, Min(Len(n5), NAME_CAP))

\* index of the last occurrence of c in s, 0 when there is none (str.rfind + 1)
RECURSIVE RFind(_, _)
RFind(s, c) ==
    IF s = <<>> THEN 0
    ELSE IF s[Len(s)] = c THEN Len(s)
    ELSE RFind(SubSeq(s, 1, Len(s) - 1), c)

\* Path(name).name: the final path component
PathName(s) == SubSeq(s, RFind(s, "/") + 1, Len(s))

\* Path(name).suffix: from the last dot of the final component, when that dot is
\* neither its first nor its last character
Suffix(s) ==
    LET nm == PathName(s)
        i == RFind(nm, ".")
    IN  IF 1 < i /\ i < Len(nm) THEN SubSeq(nm, i, Len(nm)) ELSE <<>>

validate_extension(name) == Lower(Suffix(name)) \in ALLOWED_EXT

\* Path(filename).suffix.lower().lstrip(".") or "unknown"
FileType(name) ==
    LET e == Lower(Suffix(name))
    IN  IF Len(e) >= 2 THEN e[2] ELSE "unknown"

\* BASE_UPLOAD_DIR / sanitized_name, as the components below the upload directory
RECURSIVE SplitPath(_)
SplitPath(s) ==
    LET i == RFind(s, "/")
    IN  IF i = 0 THEN <<s>> ELSE SplitPath(SubSeq(s, 1, i - 1)) \o <<SubSeq(s, i + 1, Len(s))>>


(***************************************************************************)
(* Files, hashing, loading and splitting.                                  *)
(***************************************************************************)
\* size in bytes of a file: every page takes its characters and one page break
RECURSIVE FileSize(_)
FileSize(f) == IF f = <<>> THEN 0 ELSE Head(f).n + 1 + FileSize(Tail(f))

\* write(content) through a handle positioned at offset 0: what the file held
\* beyond the written range stays
Overwrite(old, content) ==
    content \o SubSeq(old, Len(content) + 1, Len(old))

\* variant of compute_file_hash: the path is hashed along with the contents
compute_file_hash_m(path, d) == <<"sha256", path, d[path]>>

\* SHA-256 of the bytes of the file at `path` in directory d, rendered as hex:
\* equal exactly for equal contents
compute_file_hash(path, d) == <<"sha256", d[path]>>

\* the text of page p of a file, from character `start`, `len` characters long
Text(tag, p, start, len) == [t |-> tag, page |-> p, start |-> start, len |-> len]

\* pypdf branch: one unit per page whose stripped text has at least 10 characters
RECURSIVE load_pdf_from(_, _, _)
load_pdf_from(path, f, i) ==
    IF i > Len(f) THEN <<>>
    ELSE IF f[i].n = 0 \/ f[i].n < MIN_PAGE_CHARS THEN load_pdf_from(path, f, i + 1)
    ELSE << [page_content |-> Text(f[i].t, i, 0, f[i].n),
             metadata |-> [source |-> path, page |-> i, category |-> "PDFPage",
                           chunk_index |-> NoIndex]] >>
         \o load_pdf_from(path, f, i + 1)

load_pdf(path, f) == load_pdf_from(path, f, 1)

\* unstructured branch: one unit per element, whitespace cleaned, none dropped
load_unstructured(path, f) ==
    [i \in 1..Len(f) |->
        [page_content |-> Text(f[i].t, i, 0, f[i].n),
         metadata |-> [source |-> path, page |-> i, category |-> "NarrativeText",
                       chunk_index |-> NoIndex]]]

load_document(path, f) ==
    IF Lower(Suffix(path)) = <<".", "pdf">> THEN load_pdf(path, f)
    ELSE load_unstructured(path, f)

\* variant of choose_chunk_size: the first band takes in length 2000
choose_chunk_size_m(length, base) ==
    IF length <= 2000 THEN Max((base * 8) \div 10, 300)
    ELSE IF length < 10000 THEN base
    ELSE Max((base * 6) \div 10, 400)

\* splitter.py lines 24-28; int(base * 0.8) and int(base * 0.6) are the integer
\* parts of 8 * base / 10 and 6 * base / 10
choose_chunk_size(length, base) ==
    IF length < 2000 THEN Max((base * 8) \div 10, 300)
    ELSE IF length < 10000 THEN base
    ELSE Max((base * 6) \div 10, 400)

\* RecursiveCharacterTextSplitter on one unit: pieces of `size` characters, each
\* starting `size - overlap` characters after the previous one
RECURSIVE SplitFrom(_, _, _, _)
SplitFrom(doc, size, overlap, start) ==
    LET text == doc.page_content
        piece == [page_content |-> Text(text.t, text.page, text.start + start,
                                        Min(size, text.len - start)),
                  metadata |-> doc.metadata]
    IN  IF start + size >= text.len THEN <<piece>>
        ELSE <<piece>> \o SplitFrom(doc, size, overlap, start + (size - overlap))

RECURSIVE split_filtered(_, _, _)
split_filtered(filtered, base_chunk_size, overlap) ==
    IF filtered = <<>> THEN <<>>
    ELSE LET doc == Head(filtered)
             size == choose_chunk_size(doc.page_content.len, base_chunk_size)
         IN  (IF doc.page_content.len * 10 <= size * 8
              THEN <<doc>>
              ELSE SplitFrom(doc, size, overlap, 0))
             \o split_filtered(Tail(filtered), base_chunk_size, overlap)

\* whitespace at the two ends of a text: a text that records none has none
Lead(text) == IF "lead" \in DOMAIN text THEN text.lead ELSE 0
Trail(text) == IF "trail" \in DOMAIN text THEN text.trail ELSE 0

\* variant of StripText: the text is left as it is
StripText_m(text) == Text(text.t, text.page, text.start, text.len)

\* (d.page_content or "").strip()
StripText(text) ==
    Text(text.t, text.page, text.start + Lead(text), text.len - Lead(text) - Trail(text))

\* a unit whose stripped text has min_chars characters is kept, with the stripped
\* text written back into it
split_documents(docs) ==
    LET stripped == [i \in 1..Len(docs) |->
                        [docs[i] EXCEPT !.page_content = StripText(@)]]
        filtered == SelectSeq(stripped, LAMBDA d : d.page_content.len >= MIN_CHARS)
    IN  split_filtered(filtered, BASE_CHUNK, OVERLAP)

\* the vector the embedding backend returns for a text
Vec(text) == <<"vec", text>>


(***************************************************************************)
(* The upload route and the outcome of a request.                          *)
(***************************************************************************)
\* file contents: a blank page; three pages, the second one empty; one long page;
\* a page longer than the size limit
BlankPage == << [t |-> "x", n |-> 5] >>
ThreePages == << [t |-> "x", n |-> 500], [t |-> "x", n |-> 0], [t |-> "x", n |-> 3000] >>
LongPage == << [t |-> "y", n |-> 10000] >>
HugePage == << [t |-> "y", n |-> MAX_FILE_SIZE] >>

Uploads ==
    { [filename |-> NoName, bytes |-> ThreePages],
      [filename |-> <<"a", ".", "jpg">>, bytes |-> ThreePages],
      [filename |-> <<"a", ".", "pdf">>, bytes |-> <<>>],
      [filename |-> <<"a", ".", "pdf">>, bytes |-> HugePage],
      [filename |-> <<"a", ".", "pdf">>, bytes |-> BlankPage],
      [filename |-> <<"a", ".", "pdf">>, bytes |-> ThreePages],
      [filename |-> <<"a", ".", "pdf">>, bytes |-> LongPage],
      [filename |-> <<".", ".", "/", "b", ".", "txt">>, bytes |-> ThreePages] }

\* uuid.uuid4(): a value no other call returns; k tells the calls of one request apart
Uuid(r, k) == <<r, k>>

NoResult ==
    [kind |-> "none", document_id |-> Unset, count |-> 0, filename |-> Unset,
     code |-> "none", message |-> "none"]

\* route upload: the response for what process_upload returned or raised
upload(kind, document_id, count, filename) ==
    [kind |-> kind, document_id |-> document_id, count |-> count, filename |-> filename,
     code |-> CASE kind = "ok" -> "UPLOAD_SUCCESS"
                [] kind = "InvalidFileTypeError" -> "UPLOAD_INVALID_FILE_TYPE"
                [] kind = "FileTooLargeError" -> "UPLOAD_FILE_TOO_LARGE"
                [] kind = "DocumentProcessingError" -> "UPLOAD_PROCESSING_ERROR"
                [] OTHER -> "UPLOAD_UNKNOWN_ERROR",
     message |-> IF kind # "ok" THEN "error"
                 ELSE IF count > 0 THEN "File uploaded and indexed successfully."
                 ELSE "File was already indexed. Skipped duplicate processing."]

\* except clause around save_upload
save_except(e) == "DocumentProcessingError"

\* variant of process_except: the caught exception is raised again as it is
process_except_m(e) == e

\* except clause around hash, load, split and index_chunks
process_except(e) == "DocumentProcessingError"

\* except clause of index_chunks around get_embedding_function and batch_embed
embedding_except(e) == "EmbeddingError"

\* except clause of every query function
query_except(e) == "DatabaseError"

LocInit ==
    [sanitized |-> Unset, path |-> Unset, file_type |-> "unknown", file_size |-> 0,
     content_hash |-> Unset, docs |-> <<>>, chunks |-> <<>>, document_id |-> Unset,
     embeddings |-> <<>>, i |-> 0, attempt |-> 0, count |-> 0]

HistInit ==
    [called |-> {}, wrote |-> FALSE, docrows |-> 0, chunkrows |-> 0, fault |-> FALSE,
     cause |-> "none", after |-> {}, hit |-> FALSE, status_at_return |-> "none",
     calls |-> <<>>, sleeps |-> <<>>, sent |-> <<>>]

SanIdle == [name |-> <<>>, out |-> <<>>, dest |-> <<>>, pc |-> "off"]

\* the callers of get_embedding_function in one process: index_chunks of two
\* uploads and semantic_search of a query
Callers == {"upload1", "upload2", "query1"}

\* the embedding provider before any call: provider.py line 14 (_warmed_up = False)
\* and an empty lru_cache; `at` is the position of the call in progress
EmbIdle ==
    [cache |-> Unset, warmed_up |-> FALSE, at |-> "off", caller |-> "none",
     embeddings |-> Unset, got |-> [c \in Callers |-> Unset],
     calls |-> 0, constructed |-> 0, warmups |-> 0, warm_ok |-> 0, failed |-> 0,
     returned |-> {}]

\* the chat or summary request followed from its route to the end of its stream
Queries == {"q1"}

\* a request to route `kind` before the route has run; pc "off": no such request
Rq(kind, message, document_id, length, at) ==
    [kind |-> kind, message |-> message, document_id |-> document_id, length |-> length,
     pc |-> at, status |-> 0, code |-> "none", trace |-> <<>>, retrieved |-> FALSE,
     results |-> <<>>, sources |-> <<>>, prompt |-> <<>>, total |-> 0, deltas |-> 0,
     yielded |-> <<>>, raw |-> <<>>, fault |-> FALSE]

RqIdle == [q \in Queries |-> Rq("none", <<>>, <<>>, "normal", "off")]

\* no function application, no use of the prompt registry, no request at the rate limiter
FxIdle == [pc |-> "off"]
TplIdle == [pc |-> "off"]
RlIdle == [pc |-> "off"]

Init ==
    /\ up \in [Requests -> Uploads]
    /\ pc = [r \in Requests |-> "validate"]
    /\ loc = [r \in Requests |-> LocInit]
    /\ res = [r \in Requests |-> NoResult]
    /\ hist = [r \in Requests |-> HistInit]
    /\ documents = {}
    /\ document_chunks = {}
    /\ disk = [n \in {} |-> <<>>]
    /\ san = SanIdle
    /\ emb = EmbIdle
    /\ del = <<>>
    /\ rq = RqIdle
    /\ fx = FxIdle
    /\ tpl = TplIdle
    /\ rl = RlIdle

\* process_upload raises `kind` to the route; `cause` is the exception it caught
\* (or "none"), `fault` tells whether a collaborator failed
Raise(r, kind, cause, fault, comp) ==
    /\ pc' = [pc EXCEPT ![r] = "done"]
    /\ res' = [res EXCEPT ![r] = upload(kind, Unset, 0, Unset)]
    /\ hist' = [hist EXCEPT ![r].called = @ \union comp,
                            ![r].cause = cause,
                            ![r].fault = fault]

\* the status a reader sees for document `id`
StatusOf(docs, id) ==
    IF \E d \in docs : d.id = id
    THEN (CHOOSE d \in docs : d.id = id).status
    ELSE "absent"


(***************************************************************************)
(* process_upload.                                                         *)
(***************************************************************************)
\* variant of ValidationError: the check for an empty file is missing
ValidationError_m(f) ==
    LET sanitized_filename == sanitize_filename(f.filename)
        file_size == FileSize(f.bytes)
    IN  IF f.filename = NoName THEN "InvalidFileTypeError"
        ELSE IF ~validate_extension(sanitized_filename) THEN "InvalidFileTypeError"
        ELSE IF file_size > MAX_FILE_SIZE THEN "FileTooLargeError"
        ELSE "none"

\* lines 73-95: the error the checks raise for upload f, "none" when it passes them
ValidationError(f) ==
    LET sanitized_filename == sanitize_filename(f.filename)
        file_size == FileSize(f.bytes)
    IN  IF f.filename = NoName THEN "InvalidFileTypeError"
        ELSE IF ~validate_extension(sanitized_filename) THEN "InvalidFileTypeError"
        ELSE IF file_size > MAX_FILE_SIZE THEN "FileTooLargeError"
        ELSE IF file_size = 0 THEN "InvalidFileTypeError"
        ELSE "none"

\* lines 73-95: filename present, extension allowed, size within bounds
Validate(r) ==
    /\ pc[r] = "validate"
    /\ LET f == up[r]
           sanitized_filename == sanitize_filename(f.filename)
           started == [hist EXCEPT ![r].after =
                          {q \in Requests : pc[q] = "done" /\ res[q].kind = "ok"}]
       IN  IF ValidationError(f) # "none"
           THEN /\ Raise(r, ValidationError(f), "none", FALSE, {})
                /\ loc' = loc
           ELSE /\ pc' = [pc EXCEPT ![r] = "save_open"]
                /\ loc' = [loc EXCEPT ![r].sanitized = sanitized_filename]
                /\ hist' = started
                /\ res' = res
    /\ UNCHANGED <<up, documents, document_chunks, disk, san, emb, del, rq, fx, tpl, rl>>

\* save_upload up to aiofiles.open(dest, "wb"): the destination is created or truncated
SaveOpen(r) ==
    /\ pc[r] = "save_open"
    /\ LET dest == sanitize_filename(up[r].filename)
       IN  \E ok \in BOOLEAN :
             IF ok
             THEN /\ disk' = [n \in DOMAIN disk \union {dest} |->
                                 IF n = dest THEN <<>> ELSE disk[n]]
                  /\ loc' = [loc EXCEPT ![r].path = dest]
                  /\ pc' = [pc EXCEPT ![r] = "save_write"]
                  /\ hist' = [hist EXCEPT ![r].called = @ \union {"save"}]
                  /\ res' = res
             ELSE /\ Raise(r, save_except("OSError"), "OSError", TRUE, {"save"})
                  /\ UNCHANGED <<disk, loc>>
    /\ UNCHANGED <<up, documents, document_chunks, san, emb, del, rq, fx, tpl, rl>>

\* save_upload: buffer.write(content), close, return dest
SaveWrite(r) ==
    /\ pc[r] = "save_write"
    /\ \E ok \in BOOLEAN :
         IF ok
         THEN /\ disk' = [disk EXCEPT ![loc[r].path] = Overwrite(@, up[r].bytes)]
              /\ pc' = [pc EXCEPT ![r] = "hash"]
              /\ hist' = [hist EXCEPT ![r].wrote = TRUE]
              /\ res' = res
         ELSE /\ Raise(r, save_except("OSError"), "OSError", TRUE, {})
              /\ disk' = disk
    /\ UNCHANGED <<up, loc, documents, document_chunks, san, emb, del, rq, fx, tpl, rl>>

\* lines 104-107: file type, size on disk and content hash of the saved file
Hash(r) ==
    /\ pc[r] = "hash"
    /\ \E ok \in BOOLEAN :
         IF ok
         THEN /\ loc' = [loc EXCEPT ![r].file_type = FileType(loc[r].sanitized),
                                    ![r].file_size = FileSize(disk[loc[r].path]),
                                    ![r].content_hash = compute_file_hash(loc[r].path, disk)]
              /\ pc' = [pc EXCEPT ![r] = "load"]
              /\ hist' = [hist EXCEPT ![r].called = @ \union {"hash"}]
              /\ res' = res
         ELSE /\ Raise(r, process_except("OSError"), "OSError", TRUE, {"hash"})
              /\ loc' = loc
    /\ UNCHANGED <<up, documents, document_chunks, disk, san, emb, del, rq, fx, tpl, rl>>

\* line 109: docs = load_document(str(path))
Load(r) ==
    /\ pc[r] = "load"
    /\ \E ok \in BOOLEAN :
         IF ok
         THEN /\ loc' = [loc EXCEPT ![r].docs = load_document(loc[r].path, disk[loc[r].path])]
              /\ pc' = [pc EXCEPT ![r] = "split"]
              /\ hist' = [hist EXCEPT ![r].called = @ \union {"load"}]
              /\ res' = res
         ELSE /\ Raise(r, process_except("LoaderError"), "LoaderError", TRUE, {"load"})
              /\ loc' = loc
    /\ UNCHANGED <<up, documents, document_chunks, disk, san, emb, del, rq, fx, tpl, rl>>

\* line 110: chunks = split_documents(docs)
Split(r) ==
    /\ pc[r] = "split"
    /\ \E ok \in BOOLEAN :
         IF ok
         THEN /\ loc' = [loc EXCEPT ![r].chunks = split_documents(loc[r].docs)]
              /\ pc' = [pc EXCEPT ![r] = "get_document_by_hash"]
              /\ hist' = [hist EXCEPT ![r].called = @ \union {"split"}]
              /\ res' = res
         ELSE /\ Raise(r, process_except("SplitterError"), "SplitterError", TRUE, {"split"})
              /\ loc' = loc
    /\ UNCHANGED <<up, documents, document_chunks, disk, san, emb, del, rq, fx, tpl, rl>>

\* lines 120-129: process_upload returns (document_id, count, filename)
Return(r, document_id, count, comp, hit, docs) ==
    /\ pc' = [pc EXCEPT ![r] = "done"]
    /\ res' = [res EXCEPT ![r] = upload("ok", document_id, count, loc[r].sanitized)]
    /\ hist' = [hist EXCEPT ![r].called = @ \union comp,
                            ![r].hit = hit,
                            ![r].status_at_return = StatusOf(docs, document_id)]


(***************************************************************************)
(* The store schema: tables documents and document_chunks.                 *)
(***************************************************************************)
\* UNIQUE (content_hash) on documents
UniqueViolation(docs, content_hash) == \E d \in docs : d.content_hash = content_hash

\* document_chunks.document_id REFERENCES documents (id)
ForeignKeyViolation(docs, document_id) == ~ \E d \in docs : d.id = document_id

(***************************************************************************)
(* index_chunks.                                                           *)
(***************************************************************************)
\* lines 157-159: existing_id = get_document_by_hash(content_hash)
GetDocumentByHash(r) ==
    /\ pc[r] = "get_document_by_hash"
    /\ \E ok \in BOOLEAN :
         IF ok
         THEN LET rows == {d \in documents : d.content_hash = loc[r].content_hash}
              IN  IF rows # {}
                  THEN /\ Return(r, (CHOOSE d \in rows : TRUE).id, 0, {"store"}, TRUE, documents)
                       /\ loc' = loc
                  ELSE /\ pc' = [pc EXCEPT ![r] = "insert_document"]
                       /\ hist' = [hist EXCEPT ![r].called = @ \union {"store"}]
                       /\ UNCHANGED <<res, loc>>
         ELSE /\ Raise(r, process_except(query_except("OperationalError")),
                       query_except("OperationalError"), TRUE, {"store"})
              /\ loc' = loc
    /\ UNCHANGED <<up, documents, document_chunks, disk, san, emb, del, rq, fx, tpl, rl>>

\* variant of DocumentRow: the row is written as 'completed'
DocumentRow_m(document_id, filename, file_type, file_size, content_hash) ==
    [id |-> document_id, filename |-> filename, file_type |-> file_type,
     file_size |-> file_size, content_hash |-> content_hash, status |-> "completed"]

\* the row insert_document writes
DocumentRow(document_id, filename, file_type, file_size, content_hash) ==
    [id |-> document_id, filename |-> filename, file_type |-> file_type,
     file_size |-> file_size, content_hash |-> content_hash, status |-> "processing"]

\* line 161: document_id = insert_document(...), status 'processing'
InsertDocument(r) ==
    /\ pc[r] = "insert_document"
    /\ \E ok \in BOOLEAN :
         IF ok
         THEN IF UniqueViolation(documents, loc[r].content_hash)
              THEN /\ Raise(r, process_except(query_except("UniqueViolation")),
                            query_except("UniqueViolation"), FALSE, {})
                   /\ UNCHANGED <<loc, documents>>
              ELSE /\ documents' = documents \union
                         { DocumentRow(Uuid(r, 0), loc[r].sanitized, loc[r].file_type,
                                       loc[r].file_size, loc[r].content_hash) }
                   /\ loc' = [loc EXCEPT ![r].document_id = Uuid(r, 0)]
                   /\ pc' = [pc EXCEPT ![r] = "get_embedding_function"]
                   /\ hist' = [hist EXCEPT ![r].docrows = @ + 1]
                   /\ res' = res
         ELSE /\ Raise(r, process_except(query_except("OperationalError")),
                       query_except("OperationalError"), TRUE, {})
              /\ UNCHANGED <<loc, documents>>
    /\ UNCHANGED <<up, document_chunks, disk, san, emb, del, rq, fx, tpl, rl>>

\* lines 163-164: model = get_embedding_function(); texts = [...]; batch_embed
\* starts with embeddings = [] and its first sub-batch
GetEmbeddingFunction(r) ==
    /\ pc[r] = "get_embedding_function"
    /\ \E ok \in BOOLEAN :
         IF ok
         THEN /\ loc' = [loc EXCEPT ![r].embeddings = <<>>, ![r].i = 0, ![r].attempt = 0]
              /\ pc' = [pc EXCEPT ![r] =
                          IF Len(loc[r].chunks) = 0 THEN "insert_document_chunks"
                          ELSE "embed_documents"]
              /\ hist' = [hist EXCEPT ![r].called = @ \union {"embedding_function"}]
              /\ res' = res
         ELSE /\ Raise(r, process_except(embedding_except("EmbeddingError")),
                       embedding_except("EmbeddingError"), TRUE, {"embedding_function"})
              /\ loc' = loc
    /\ UNCHANGED <<up, documents, document_chunks, disk, san, emb, del, rq, fx, tpl, rl>>

\* variant of LastAttempt: one attempt more is allowed
LastAttempt_m(attempt, max_retries) == attempt = max_retries

\* batch_embed line 138: the failed attempt was the last one allowed
LastAttempt(attempt, max_retries) == attempt = max_retries - 1

\* variant of Backoff: the delay starts at two seconds
Backoff_m(attempt) == 2 ^ (attempt + 1)

\* batch_embed line 140: time.sleep(2**attempt)
Backoff(attempt) == 2 ^ attempt

\* variant of Batch: the slice runs one text into the next sub-batch
Batch_m(texts, i, batch_size) == SubSeq(texts, i + 1, Min(i + batch_size + 1, Len(texts)))

\* batch_embed line 132: batch = texts[i : i + batch_size]
Batch(texts, i, batch_size) == SubSeq(texts, i + 1, Min(i + batch_size, Len(texts)))

\* batch_embed, one pass of the inner loop: model.embed_documents(batch) for the
\* sub-batch starting at i, attempt number `attempt`
EmbedDocuments(r) ==
    /\ pc[r] = "embed_documents"
    /\ LET texts == [k \in 1..Len(loc[r].chunks) |-> loc[r].chunks[k].page_content]
           i == loc[r].i
           attempt == loc[r].attempt
           batch == Batch(texts, i, BATCH_SIZE)
       IN  \E ok \in BOOLEAN :
             IF ok
             THEN /\ loc' = [loc EXCEPT
                        ![r].embeddings = @ \o [k \in 1..Len(batch) |-> Vec(batch[k])],
                        ![r].i = i + BATCH_SIZE,
                        ![r].attempt = 0]
                  /\ pc' = [pc EXCEPT ![r] =
                              IF i + BATCH_SIZE < Len(texts) THEN "embed_documents"
                              ELSE "insert_document_chunks"]
                  /\ hist' = [hist EXCEPT ![r].called = @ \union {"embed"},
                                          ![r].calls = Append(@, <<i, attempt, TRUE>>),
                                          ![r].sent = Append(@, Len(batch))]
                  /\ res' = res
             ELSE IF LastAttempt(attempt, MAX_RETRIES)
             THEN /\ pc' = [pc EXCEPT ![r] = "done"]
                  /\ res' = [res EXCEPT ![r] =
                        upload(process_except(embedding_except("BackendError")), Unset, 0, Unset)]
                  /\ hist' = [hist EXCEPT ![r].called = @ \union {"embed"},
                                          ![r].calls = Append(@, <<i, attempt, FALSE>>),
                                          ![r].sent = Append(@, Len(batch)),
                                          ![r].cause = embedding_except("BackendError"),
                                          ![r].fault = TRUE]
                  /\ loc' = loc
             ELSE /\ loc' = [loc EXCEPT ![r].attempt = attempt + 1]
                  /\ hist' = [hist EXCEPT ![r].called = @ \union {"embed"},
                                          ![r].calls = Append(@, <<i, attempt, FALSE>>),
                                          ![r].sent = Append(@, Len(batch)),
                                          ![r].sleeps = Append(@, Backoff(attempt))]
                  /\ UNCHANGED <<pc, res>>
    /\ UNCHANGED <<up, documents, document_chunks, disk, san, emb, del, rq, fx, tpl, rl>>

\* variant of ChunkRows: chunk_index counts from 1
ChunkRows_m(document_id, chunks, embeddings) ==
    { [id |-> Uuid(document_id[1], k),
       document_id |-> document_id,
       chunk_index |-> k,
       content |-> chunks[k].page_content,
       embedding |-> embeddings[k],
       metadata |-> [chunks[k].metadata EXCEPT !.chunk_index = k - 1]] :
      k \in 1..Min(Len(chunks), Len(embeddings)) }

\* rows built by insert_document_chunks from enumerate(zip(chunks, embeddings))
ChunkRows(document_id, chunks, embeddings) ==
    { [id |-> Uuid(document_id[1], k),
       document_id |-> document_id,
       chunk_index |-> k - 1,
       content |-> chunks[k].page_content,
       embedding |-> embeddings[k],
       metadata |-> [chunks[k].metadata EXCEPT !.chunk_index = k - 1]] :
      k \in 1..Min(Len(chunks), Len(embeddings)) }

\* line 170: count = insert_document_chunks(document_id, chunks, embeddings)
InsertDocumentChunks(r) ==
    /\ pc[r] = "insert_document_chunks"
    /\ LET rows == ChunkRows(loc[r].document_id, loc[r].chunks, loc[r].embeddings)
       IN  \E ok \in BOOLEAN :
             IF ok
             THEN IF rows # {} /\ ForeignKeyViolation(documents, loc[r].document_id)
                  THEN /\ Raise(r, process_except(query_except("ForeignKeyViolation")),
                                query_except("ForeignKeyViolation"), FALSE, {})
                       /\ UNCHANGED <<loc, document_chunks>>
                  ELSE /\ document_chunks' = document_chunks \union rows
                       /\ loc' = [loc EXCEPT
                             ![r].count = Cardinality(rows),
                             ![r].chunks = [k \in 1..Len(@) |->
                                 IF k <= Cardinality(rows)
                                 THEN [@[k] EXCEPT !.metadata.chunk_index = k - 1]
                                 ELSE @[k]]]
                       /\ pc' = [pc EXCEPT ![r] = "mark_document_completed"]
                       /\ hist' = [hist EXCEPT ![r].chunkrows = @ + Cardinality(rows)]
                       /\ res' = res
             ELSE /\ Raise(r, process_except(query_except("OperationalError")),
                           query_except("OperationalError"), TRUE, {})
                  /\ UNCHANGED <<loc, document_chunks>>
    /\ UNCHANGED <<up, documents, disk, san, emb, del, rq, fx, tpl, rl>>

\* variant of mark_document_completed: the status written is 'indexed'
mark_document_completed_m(docs, document_id) ==
    { IF d.id = document_id THEN [d EXCEPT !.status = "indexed"] ELSE d : d \in docs }

\* UPDATE documents SET status = 'completed' WHERE id = %s
mark_document_completed(docs, document_id) ==
    { IF d.id = document_id THEN [d EXCEPT !.status = "completed"] ELSE d : d \in docs }

\* lines 171-172: mark_document_completed(document_id); return document_id, count
MarkDocumentCompleted(r) ==
    /\ pc[r] = "mark_document_completed"
    /\ \E ok \in BOOLEAN :
         IF ok
         THEN LET updated == mark_document_completed(documents, loc[r].document_id)
              IN  /\ documents' = updated
                  /\ Return(r, loc[r].document_id, loc[r].count, {}, FALSE, updated)
         ELSE /\ Raise(r, process_except(query_except("OperationalError")),
                       query_except("OperationalError"), TRUE, {})
              /\ documents' = documents
    /\ UNCHANGED <<up, loc, document_chunks, disk, san, emb, del, rq, fx, tpl, rl>>

Next ==
    \E r \in Requests :
        \/ Validate(r)
        \/ SaveOpen(r)
        \/ SaveWrite(r)
        \/ Hash(r)
        \/ Load(r)
        \/ Split(r)
        \/ GetDocumentByHash(r)
        \/ InsertDocument(r)
        \/ GetEmbeddingFunction(r)
        \/ EmbedDocuments(r)
        \/ InsertDocumentChunks(r)
        \/ MarkDocumentCompleted(r)

Spec == Init /\ [][Next]_vars


(***************************************************************************)
(* sanitize_filename and the destination path of save_upload, for every    *)
(* raw filename of up to MaxNameLen characters.                            *)
(***************************************************************************)
\* a dot, the two path separators, a character outside the safe class, a
\* whitespace character and a letter
SanAlphabet == {".", "/", "\\", "$", " ", "a"}

BoundedSeq(S, n) == UNION { [1..k -> S] : k \in 0..n }

\* BASE_UPLOAD_DIR / sanitized_name: the path components below the upload
\* directory (pathlib drops empty and "." components, and keeps "..")
Dest(name) == SelectSeq(SplitPath(name), LAMBDA c : c # <<>> /\ c # <<".">>)

InitSan ==
    /\ up = [r \in Requests |-> [filename |-> NoName, bytes |-> <<>>]]
    /\ pc = [r \in Requests |-> "off"]
    /\ loc = [r \in Requests |-> LocInit]
    /\ res = [r \in Requests |-> NoResult]
    /\ hist = [r \in Requests |-> HistInit]
    /\ documents = {}
    /\ document_chunks = {}
    /\ disk = [n \in {} |-> <<>>]
    /\ san \in { [name |-> n, out |-> <<>>, dest |-> <<>>, pc |-> "call"] :
                 n \in BoundedSeq(SanAlphabet, MaxNameLen) }
    /\ emb = EmbIdle
    /\ del = <<>>
    /\ rq = RqIdle
    /\ fx = FxIdle
    /\ tpl = TplIdle
    /\ rl = RlIdle

\* sanitized_name = sanitize_filename(file.filename)
SanitizeFilename ==
    /\ san.pc = "call"
    /\ san' = [san EXCEPT !.out = sanitize_filename(san.name), !.pc = "sanitized"]
    /\ UNCHANGED <<up, pc, loc, res, hist, documents, document_chunks, disk, emb, del, rq, fx, tpl, rl>>

\* dest = BASE_UPLOAD_DIR / sanitized_name
SaveDest ==
    /\ san.pc = "sanitized"
    /\ san' = [san EXCEPT !.dest = Dest(san.out), !.pc = "dest"]
    /\ UNCHANGED <<up, pc, loc, res, hist, documents, document_chunks, disk, emb, del, rq, fx, tpl, rl>>

NextSan == SanitizeFilename \/ SaveDest

SpecSan == InitSan /\ [][NextSan]_vars

\* s contains two consecutive dots
HasDotDot(s) == \E i \in 1..(Len(s) - 1) : s[i] = "." /\ s[i + 1] = "."

\* s contains token c
HasTok(s, c) == \E i \in 1..Len(s) : s[i] = c


(***************************************************************************)
(* Properties of the ingestion pipeline.                                   *)
(***************************************************************************)
\* the rows of document_chunks that belong to document id
RowsOf(id) == {row \in document_chunks : row.document_id = id}

\* request r got past the validation of process_upload
Validated(r) == pc[r] \notin {"validate", "off"} /\ res[r].kind \notin {"InvalidFileTypeError", "FileTooLargeError"}

\* C1: a document whose status is 'completed' has every chunk produced for it
\* stored (one row per chunk, in order, with its vector), whichever steps of
\* index_chunks failed in this or another request.
C1_CompletedHasAllChunks ==
    \A d \in documents :
        d.status = "completed" =>
            \E r \in Requests :
                /\ loc[r].document_id = d.id
                /\ Cardinality(RowsOf(d.id)) = Len(loc[r].chunks)
                /\ \A k \in 1..Len(loc[r].chunks) :
                      \E row \in RowsOf(d.id) :
                          /\ row.chunk_index = k - 1
                          /\ row.content = loc[r].chunks[k].page_content
                          /\ row.embedding = Vec(loc[r].chunks[k].page_content)

\* a completed document with several chunks, next to a document left at
\* 'processing' by a request that failed after insert_document
C1_Witness ==
    \E d1, d2 \in documents :
        /\ d1.status = "completed" /\ Cardinality(RowsOf(d1.id)) >= 2
        /\ d2.status = "processing"
        /\ \E r \in Requests :
              pc[r] = "done" /\ loc[r].document_id = d2.id /\ hist[r].fault

\* C2: when the same bytes are uploaded again after an upload of them returned,
\* the second upload adds no document row and no chunk row, and when it returns
\* it returns the first upload's document id with chunks_indexed = 0.
C2_DedupIdempotent ==
    \A r1, r2 \in Requests :
        (r1 \in hist[r2].after /\ up[r1].bytes = up[r2].bytes) =>
            /\ hist[r2].docrows = 0
            /\ hist[r2].chunkrows = 0
            /\ (pc[r2] = "done" /\ res[r2].kind = "ok") =>
                  /\ res[r2].document_id = res[r1].document_id
                  /\ res[r2].count = 0

\* the second of two uploads of the same bytes has returned the id of the first,
\* which indexed chunks
C2_Witness ==
    \E r1, r2 \in Requests :
        /\ r1 \in hist[r2].after /\ up[r1].bytes = up[r2].bytes
        /\ res[r1].count > 0
        /\ pc[r2] = "done" /\ res[r2].kind = "ok"
        /\ res[r2].document_id = res[r1].document_id /\ res[r2].count = 0

\* C3: two uploads of byte-identical content, however they interleave, both end
\* with the same document id, one document row for the content (no collaborator
\* having failed).
C3_ConcurrentSameContent ==
    \A r1, r2 \in Requests :
        (/\ r1 # r2
         /\ up[r1].bytes = up[r2].bytes
         /\ loc[r1].sanitized # loc[r2].sanitized
         /\ pc[r1] = "done" /\ pc[r2] = "done"
         /\ Validated(r1) /\ Validated(r2)
         /\ ~hist[r1].fault /\ ~hist[r2].fault) =>
            /\ res[r1].kind = "ok" /\ res[r2].kind = "ok"
            /\ res[r1].document_id = res[r2].document_id
            /\ Cardinality({d \in documents :
                   d.content_hash = <<"sha256", up[r1].bytes>>}) = 1

\* C4: an upload returns chunks_indexed = 0 exactly when a document with its
\* content hash existed at the dedup check.
C4_ZeroMeansDuplicate ==
    \A r \in Requests :
        (pc[r] = "done" /\ res[r].kind = "ok") => (res[r].count = 0 <=> hist[r].hit)

\* C5: an upload that finds its content hash in the store has invoked neither
\* the loader, nor the chunker, nor the embedding backend.
C5_DedupShortCircuit ==
    \A r \in Requests :
        hist[r].hit => hist[r].called \cap {"load", "split", "embed"} = {}

\* C6: process_upload never returns a result naming a document that is at
\* 'processing' when it returns.
C6_NeverReturnsProcessing ==
    \A r \in Requests :
        (pc[r] = "done" /\ res[r].kind = "ok") => hist[r].status_at_return = "completed"

\* C7: a request in which saving, hashing, loading, chunking, embedding or a
\* store statement failed ends with DocumentProcessingError, answered with
\* UPLOAD_PROCESSING_ERROR.
C7_FailureIsProcessingError ==
    \A r \in Requests :
        (pc[r] = "done" /\ hist[r].cause # "none") =>
            /\ res[r].kind = "DocumentProcessingError"
            /\ res[r].code = "UPLOAD_PROCESSING_ERROR"

\* one request failed on its third embedding attempt, another on a store statement
C7_Witness ==
    \E r1, r2 \in Requests :
        /\ pc[r1] = "done" /\ hist[r1].cause = "EmbeddingError" /\ Len(hist[r1].calls) = 3
        /\ pc[r2] = "done" /\ hist[r2].cause = "DatabaseError"
        /\ res[r1].kind = "DocumentProcessingError"
        /\ res[r2].kind = "DocumentProcessingError"

\* upload f has no filename, a disallowed extension, no bytes or too many
InvalidUpload(f) ==
    \/ f.filename = NoName
    \/ Lower(Suffix(sanitize_filename(f.filename))) \notin ALLOWED_EXT
    \/ FileSize(f.bytes) = 0
    \/ FileSize(f.bytes) > MAX_FILE_SIZE

C9_SanitizedIsSafe ==
    san.pc \in {"sanitized", "dest"} =>
        /\ ~HasTok(san.out, "/")
        /\ ~HasTok(san.out, "\\")
        /\ ~HasDotDot(san.out)

\* C10: batch_embed calls the backend at most three times for one sub-batch;
\* after a success the next call is the first attempt on the next sub-batch,
\* after a failure it is the next attempt on the same one; the error reaches the
\* caller exactly when the third attempt on a sub-batch has failed.
C10_RetryCeiling ==
    \A r \in Requests :
        LET c == hist[r].calls
            n == Len(c)
        IN  /\ \A i \in 0..Len(loc[r].chunks) : Cardinality({k \in 1..n : c[k][1] = i}) <= 3
            /\ n > 0 => c[1][1] = 0 /\ c[1][2] = 0
            /\ \A k \in 1..(n - 1) :
                  IF c[k][3]
                  THEN c[k + 1][1] = c[k][1] + BATCH_SIZE /\ c[k + 1][2] = 0
                  ELSE c[k + 1][1] = c[k][1] /\ c[k + 1][2] = c[k][2] + 1
            /\ (n > 0 /\ ~c[n][3] /\ c[n][2] = 2) =>
                  pc[r] = "done" /\ res[r].kind = "DocumentProcessingError"
            /\ (n > 0 /\ ~c[n][3] /\ c[n][2] < 2) => pc[r] = "embed_documents"
            /\ (n > 0 /\ pc[r] = "done" /\ hist[r].cause = "EmbeddingError") =>
                  ~c[n][3] /\ c[n][2] = 2

\* the first sub-batch failed twice, succeeded on the third attempt, and the
\* second sub-batch was then sent
C10_Witness ==
    \E r \in Requests :
        LET c == hist[r].calls
        IN  /\ Len(c) >= 4
            /\ c[1] = <<0, 0, FALSE>> /\ c[2] = <<0, 1, FALSE>> /\ c[3] = <<0, 2, TRUE>>
            /\ c[4][1] = BATCH_SIZE /\ c[4][2] = 0

\* the k-th embed call of request r was the first one made for its sub-batch
FirstOnBatch(r, k) == k = 1 \/ hist[r].calls[k - 1][1] # hist[r].calls[k][1]

\* the delays slept after the first k embed calls of request r, as the claim has them:
\* one second after the first failure on a sub-batch, twice the previous delay after
\* the next one, nothing after a success
RECURSIVE DelaysUpTo(_, _)
DelaysUpTo(r, k) ==
    IF k = 0 THEN <<>>
    ELSE LET before == DelaysUpTo(r, k - 1)
         IN  IF hist[r].calls[k][3] THEN before
             ELSE IF FirstOnBatch(r, k) THEN Append(before, 1)
             ELSE Append(before, 2 * before[Len(before)])

\* C11: between the attempts on one sub-batch the delay is 1 second and then 2
\* seconds, there is no delay after a success or after the final failed attempt,
\* and the delay starts again at 1 second on every new sub-batch.
C11_BackoffDelays ==
    \A r \in Requests :
        LET c == hist[r].calls
            gaveUp == c # <<>> /\ ~c[Len(c)][3] /\ pc[r] = "done"
            slept == IF gaveUp THEN DelaysUpTo(r, Len(c) - 1) ELSE DelaysUpTo(r, Len(c))
        IN  /\ hist[r].sleeps = slept
            /\ \A k \in 1..Len(hist[r].sleeps) : hist[r].sleeps[k] \in {1, 2}

\* a request slept 1 and 2 seconds on its first sub-batch and 1 second again on its second
C11_Witness ==
    \E r \in Requests :
        /\ hist[r].sleeps = <<1, 2, 1>>
        /\ hist[r].calls = <<<<0, 0, FALSE>>, <<0, 1, FALSE>>, <<0, 2, TRUE>>,
                             <<BATCH_SIZE, 0, FALSE>>>>

\* batch_embed has returned its list to index_chunks for request r
BatchEmbedReturned(r) == pc[r] \in {"insert_document_chunks", "mark_document_completed"}

\* C12: the embed calls cover the texts in consecutive sub-batches of at most 32:
\* a failed call is followed by a call for the same sub-batch, a successful one by
\* the sub-batch that starts right after it, so nothing that succeeded is sent
\* again; and the list batch_embed returns holds the vector of each text once, in
\* the order of the texts.
C12_BatchesLocalizeRetries ==
    \A r \in Requests :
        LET c == hist[r].calls
            sent == hist[r].sent
            n == Len(loc[r].chunks)
        IN  /\ Len(sent) = Len(c)
            /\ \A k \in 1..Len(c) :
                 /\ sent[k] \in 1..32
                 /\ c[k][1] + sent[k] <= n
                 /\ k = 1 => c[k][1] = 0
                 /\ k > 1 => c[k][1] = IF c[k - 1][3] THEN c[k - 1][1] + sent[k - 1]
                                       ELSE c[k - 1][1]
                 /\ \A l \in (k + 1)..Len(c) : c[k][3] => c[l][1] >= c[k][1] + sent[k]
            /\ BatchEmbedReturned(r) =>
                 /\ Len(loc[r].embeddings) = n
                 /\ \A k \in 1..n : loc[r].embeddings[k] = Vec(loc[r].chunks[k].page_content)

\* batch_embed returned 35 vectors after a failed attempt on each of the two sub-batches
C12_Witness ==
    \E r \in Requests :
        /\ BatchEmbedReturned(r)
        /\ Len(loc[r].embeddings) = 35
        /\ hist[r].calls = <<<<0, 0, FALSE>>, <<0, 1, TRUE>>,
                             <<BATCH_SIZE, 0, FALSE>>, <<BATCH_SIZE, 1, TRUE>>>>

\* request r returned from an ingestion of its own (not a duplicate hit)
Ingested(r) == pc[r] = "done" /\ res[r].kind = "ok" /\ ~hist[r].hit

\* C19: after an ingestion that returned, with n the number of chunks the chunker
\* produced, the store holds n chunk rows of the document, the row of chunk_index
\* k - 1 carries the k-th chunk, n vectors were embedded, and chunks_indexed is n.
C19_AllChunksStoredInOrder ==
    \A r \in Requests :
        Ingested(r) =>
            LET n == Len(loc[r].chunks)
                rows == {row \in document_chunks : row.document_id = res[r].document_id}
            IN  /\ Cardinality(rows) = n
                /\ {row.chunk_index : row \in rows} = 0..(n - 1)
                /\ \A row \in rows :
                      row.content = loc[r].chunks[row.chunk_index + 1].page_content
                /\ Len(loc[r].embeddings) = n
                /\ res[r].count = n

\* an ingestion of 35 chunks returned after an embed call had failed
C19_Witness ==
    \E r \in Requests :
        /\ Ingested(r)
        /\ res[r].count = 35
        /\ \E k \in 1..Len(hist[r].calls) : ~hist[r].calls[k][3]

\* what one step may do to the document rows: a row that appears is 'processing';
\* a row that was there keeps every field, but its status may go from 'processing'
\* to 'completed'
C20_Step ==
    \A d2 \in documents' :
        IF \E d \in documents : d.id = d2.id
        THEN \E d \in documents :
                /\ d.id = d2.id
                /\ [d2 EXCEPT !.status = d.status] = d
                /\ \/ d2.status = d.status
                   \/ d.status = "processing" /\ d2.status = "completed"
        ELSE d2.status = "processing"

\* C20: the status of a document row is 'processing' or 'completed'; a row is
\* created as 'processing', the only change ever made to a row is processing ->
\* completed, and no other field of a row changes.
C20_StatusLifecycle ==
    /\ [](\A d \in documents : d.status \in {"processing", "completed"})
    /\ [][C20_Step]_vars

\* one document was completed while another, created by a request that failed
\* later, stays at 'processing'
C20_Witness ==
    \E d1, d2 \in documents :
        /\ d1.status = "completed" /\ d2.status = "processing"
        /\ \A r \in Requests : pc[r] = "done"

(***************************************************************************)
(* get_embedding_function in one process.  The routes are coroutines that  *)
(* call it without awaiting anything in between, so one call runs from its *)
(* cache lookup to its return or raise before the next one starts.         *)
(***************************************************************************)
MaxCalls == 4

\* the n-th OllamaEmbeddings object constructed in the process
Handle(n) == <<"handle", n>>

\* variant of CacheHit: the cache never answers
CacheHit_m(cache) == FALSE

\* @lru_cache(maxsize=1): a value returned earlier is stored for the (empty) argument list
CacheHit(cache) == cache # Unset

InitEmb ==
    /\ up = [r \in Requests |-> [filename |-> NoName, bytes |-> <<>>]]
    /\ pc = [r \in Requests |-> "off"]
    /\ loc = [r \in Requests |-> LocInit]
    /\ res = [r \in Requests |-> NoResult]
    /\ hist = [r \in Requests |-> HistInit]
    /\ documents = {}
    /\ document_chunks = {}
    /\ disk = [n \in {} |-> <<>>]
    /\ san = SanIdle
    /\ emb = [EmbIdle EXCEPT !.at = "idle"]
    /\ del = <<>>
    /\ rq = RqIdle
    /\ fx = FxIdle
    /\ tpl = TplIdle
    /\ rl = RlIdle

\* the call raises EmbeddingError (lines 43-45); lru_cache stores nothing
EmbRaise ==
    [emb EXCEPT !.got[emb.caller] = <<"EmbeddingError">>, !.failed = @ + 1,
                !.at = "idle", !.caller = "none", !.embeddings = Unset]

\* caller c calls get_embedding_function(): the lru_cache wrapper answers from the
\* cache or runs the function body
EmbCall(c) ==
    /\ emb.at = "idle"
    /\ emb.calls < MaxCalls
    /\ emb' = IF CacheHit(emb.cache)
              THEN [emb EXCEPT !.calls = @ + 1, !.got[c] = emb.cache,
                               !.returned = @ \union {emb.cache}]
              ELSE [emb EXCEPT !.calls = @ + 1, !.caller = c, !.at = "construct"]
    /\ UNCHANGED <<up, pc, loc, res, hist, documents, document_chunks, disk, san, del, rq, fx, tpl, rl>>

\* lines 31-35: embeddings = OllamaEmbeddings(...)
EmbConstruct ==
    /\ emb.at = "construct"
    /\ \E ok \in BOOLEAN :
         emb' = IF ok
                THEN [emb EXCEPT !.embeddings = Handle(emb.constructed + 1),
                                 !.constructed = @ + 1, !.at = "warmup"]
                ELSE EmbRaise
    /\ UNCHANGED <<up, pc, loc, res, hist, documents, document_chunks, disk, san, del, rq, fx, tpl, rl>>

\* lines 37-40: if not _warmed_up: embeddings.embed_query("warmup"); _warmed_up = True
EmbWarmup ==
    /\ emb.at = "warmup"
    /\ IF emb.warmed_up
       THEN emb' = [emb EXCEPT !.at = "return"]
       ELSE \E ok \in BOOLEAN :
              emb' = IF ok
                     THEN [emb EXCEPT !.warmups = @ + 1, !.warm_ok = @ + 1,
                                      !.warmed_up = TRUE, !.at = "return"]
                     ELSE [EmbRaise EXCEPT !.warmups = @ + 1]
    /\ UNCHANGED <<up, pc, loc, res, hist, documents, document_chunks, disk, san, del, rq, fx, tpl, rl>>

\* line 42: return embeddings; the lru_cache wrapper stores the value
EmbReturn ==
    /\ emb.at = "return"
    /\ emb' = [emb EXCEPT !.cache = emb.embeddings, !.got[emb.caller] = emb.embeddings,
                          !.returned = @ \union {emb.embeddings},
                          !.at = "idle", !.caller = "none", !.embeddings = Unset]
    /\ UNCHANGED <<up, pc, loc, res, hist, documents, document_chunks, disk, san, del, rq, fx, tpl, rl>>

NextEmb ==
    \/ \E c \in Callers : EmbCall(c)
    \/ EmbConstruct
    \/ EmbWarmup
    \/ EmbReturn

SpecEmb == InitEmb /\ [][NextEmb]_vars

\* C13 as stated: the handle is constructed at most once and the warm-up call is
\* made once, with the first construction; all callers receive the same handle.
C13_ConstructedOnce ==
    /\ emb.constructed <= 1
    /\ emb.warmups <= 1
    /\ emb.constructed = 1 /\ emb.at \in {"return", "idle"} => emb.warmups = 1
    /\ Cardinality(emb.returned) <= 1

\* what one step may do once a handle is cached
C13_Step ==
    emb.cache # Unset =>
        /\ emb'.cache = emb.cache
        /\ emb'.constructed = emb.constructed
        /\ emb'.warmups = emb.warmups

\* C13 (amended): the calls of one process run one after the other; at most one
\* handle is ever returned, so all callers that receive a handle receive the same
\* one; the warm-up call succeeds once, in the call that returns the handle
\* first; after that no handle is constructed and no warm-up call is made; a
\* construction or warm-up call is repeated only after a call that raised.
C13_OneHandleReturned ==
    /\ [](/\ Cardinality(emb.returned) <= 1
          /\ \A c \in Callers : emb.got[c] \in {Unset, <<"EmbeddingError">>, emb.cache}
          /\ emb.warm_ok <= 1
          /\ emb.cache # Unset => emb.warm_ok = 1 /\ emb.returned = {emb.cache}
          /\ emb.constructed <= emb.failed + 1
          /\ emb.warmups <= emb.failed + 1)
    /\ [][C13_Step]_vars

\* a call raised after its warm-up call failed, the next one built a second
\* handle, and two callers hold that handle
C13_Witness ==
    /\ emb.constructed = 2 /\ emb.warmups = 2 /\ emb.failed = 1
    /\ \E c1, c2 \in Callers : c1 # c2 /\ emb.got[c1] = Handle(2) /\ emb.got[c2] = Handle(2)

(***************************************************************************)
(* Reads of the store: document_exists, semantic_search, hybrid_search,    *)
(* get_all_document_chunks.  A query is a sequence of word tokens; the     *)
(* distance of a stored vector to the vector of a query and the BM25 score *)
(* of a chunk are values of the embedding model and of the ranking         *)
(* library, taken here as fixed functions of the chunk's text.             *)
(***************************************************************************)
RETRIEVER_K == 5

\* SELECT EXISTS(SELECT 1 FROM documents WHERE id = %s)
document_exists(docs, document_id) == \E d \in docs : d.id = document_id

\* the Document built from a row of document_chunks (metadata plus id,
\* document_id and chunk_index)
RowDocument(row) ==
    [page_content |-> row.content,
     metadata |-> [source |-> row.metadata.source, page |-> row.metadata.page,
                   category |-> row.metadata.category, id |-> row.id,
                   document_id |-> row.document_id, chunk_index |-> row.chunk_index]]

\* embedding <-> vector: texts of the file the query names are nearest
Distance(embedding, vector) ==
    IF \E i \in 1..Len(vector[2]) : vector[2][i] = embedding[2].t
    THEN embedding[2].start
    ELSE 100000 + embedding[2].start

\* ORDER BY embedding <-> %s LIMIT %s
RECURSIVE Nearest(_, _, _)
Nearest(rows, vector, k) ==
    IF k = 0 \/ rows = {} THEN <<>>
    ELSE LET first == CHOOSE x \in rows : \A y \in rows :
                          Distance(x.embedding, vector) <= Distance(y.embedding, vector)
         IN  <<first>> \o Nearest(rows \ {first}, vector, k - 1)

\* variant of semantic_search: the rows of every document are searched
semantic_search_m(chunks, query, k, document_id) ==
    LET found == Nearest(chunks, Vec(query), k)
    IN  [i \in 1..Len(found) |-> RowDocument(found[i])]

\* semantic_search: the k nearest rows, of one document when document_id is given
semantic_search(chunks, query, k, document_id) ==
    LET rows == IF document_id # Unset
                THEN {row \in chunks : row.document_id = document_id}
                ELSE chunks
        found == Nearest(rows, Vec(query), k)
    IN  [i \in 1..Len(found) |-> RowDocument(found[i])]

\* ORDER BY chunk_index ASC
RECURSIVE ByChunkIndex(_)
ByChunkIndex(rows) ==
    IF rows = {} THEN <<>>
    ELSE LET first == CHOOSE x \in rows : \A y \in rows : x.chunk_index <= y.chunk_index
         IN  <<first>> \o ByChunkIndex(rows \ {first})

\* get_all_document_chunks: every chunk of the document in reading order
get_all_document_chunks(chunks, document_id) ==
    LET found == ByChunkIndex({row \in chunks : row.document_id = document_id})
    IN  [i \in 1..Len(found) |-> RowDocument(found[i])]

\* the BM25 score of a chunk for a query
Bm25Score(doc, query) ==
    IF \E i \in 1..Len(query) : query[i] = doc.page_content.t
    THEN doc.page_content.len ELSE 0

\* BM25Retriever.from_documents(docs, k=k).invoke(query): the k best by score
RECURSIVE Bm25Top(_, _, _)
Bm25Top(docs, query, k) ==
    IF k = 0 \/ docs = <<>> THEN <<>>
    ELSE LET best == CHOOSE i \in 1..Len(docs) : \A j \in 1..Len(docs) :
                        \/ Bm25Score(docs[i], query) > Bm25Score(docs[j], query)
                        \/ Bm25Score(docs[i], query) = Bm25Score(docs[j], query) /\ i <= j
             rest == [j \in 1..(Len(docs) - 1) |-> IF j < best THEN docs[j] ELSE docs[j + 1]]
         IN  <<docs[best]>> \o Bm25Top(rest, query, k - 1)

\* hybrid_search: semantic candidates, re-ranked by BM25; nothing when there are none
hybrid_search(chunks, query, k, document_id) ==
    LET semantic == semantic_search(chunks, query, k, document_id)
    IN  IF semantic = <<>> THEN <<>> ELSE Bm25Top(semantic, query, k)

(***************************************************************************)
(* delete_document_by_id and the delete route, next to two uploads.        *)
(***************************************************************************)
MaxDeletes == 2

\* a file of one page
OnePage == << [t |-> "z", n |-> 500] >>

UploadsDel ==
    { [filename |-> <<"a", ".", "pdf">>, bytes |-> ThreePages],
      [filename |-> <<"b", ".", "txt">>, bytes |-> OnePage] }

\* document_chunks.document_id REFERENCES documents (id) ON DELETE CASCADE
CascadeDelete(chunks, document_id) == {row \in chunks : row.document_id # document_id}

\* variant of DeleteRows: the statement removes nothing
DeleteRows_m(docs, document_id) == docs

\* DELETE FROM documents WHERE id = %s
DeleteRows(docs, document_id) == {d \in docs : d.id # document_id}

\* variant of RowCountPositive: the function reports a removal whatever the row count
RowCountPositive_m(docs, document_id) == TRUE

\* deleted = cur.rowcount > 0
RowCountPositive(docs, document_id) == \E d \in docs : d.id = document_id

\* route delete_document: the response for what delete_document_by_id returned
delete_document(document_id, deleted) ==
    [id |-> document_id, deleted |-> deleted, raised |-> FALSE,
     code |-> IF deleted THEN "DOCUMENT_DELETED" ELSE "DOCUMENT_NOT_FOUND"]

InitDel ==
    /\ up \in {u \in [Requests -> UploadsDel] : u["r1"].bytes = ThreePages}
    /\ pc = [r \in Requests |-> "validate"]
    /\ loc = [r \in Requests |-> LocInit]
    /\ res = [r \in Requests |-> NoResult]
    /\ hist = [r \in Requests |-> HistInit]
    /\ documents = {}
    /\ document_chunks = {}
    /\ disk = [n \in {} |-> <<>>]
    /\ san = SanIdle
    /\ emb = EmbIdle
    /\ del = <<>>
    /\ rq = RqIdle
    /\ fx = FxIdle
    /\ tpl = TplIdle
    /\ rl = RlIdle

\* DELETE /documents/{document_id}: delete_document_by_id(document_id) in one
\* transaction, or DatabaseError when the statement fails
DeleteDocument(document_id) ==
    /\ Len(del) < MaxDeletes
    /\ \E ok \in BOOLEAN :
         IF ok
         THEN /\ documents' = DeleteRows(documents, document_id)
              /\ document_chunks' =
                    IF DeleteRows(documents, document_id) # documents
                    THEN CascadeDelete(document_chunks, document_id)
                    ELSE document_chunks
              /\ del' = Append(del, delete_document(document_id,
                                        RowCountPositive(documents, document_id)))
         ELSE /\ del' = Append(del, [id |-> document_id, deleted |-> FALSE,
                                     raised |-> TRUE, code |-> "DatabaseError"])
              /\ UNCHANGED <<documents, document_chunks>>
    /\ UNCHANGED <<up, pc, loc, res, hist, disk, san, emb, rq, fx, tpl, rl>>

NextDel ==
    \/ Next
    \/ \E r \in Requests : DeleteDocument(Uuid(r, 0))

SpecDel == InitDel /\ [][NextDel]_vars

\* the ids delete_document_by_id removed a row for
DeletedIds == {del[k].id : k \in {j \in 1..Len(del) : del[j].deleted}}

\* C15: once delete_document_by_id(id) has returned true, the store holds no chunk
\* of id, document_exists(id) is false, and get_all_document_chunks and
\* hybrid_search scoped to id return the empty list.
C15_DeleteCascades ==
    \A id \in DeletedIds :
        /\ {row \in document_chunks : row.document_id = id} = {}
        /\ ~document_exists(documents, id)
        /\ get_all_document_chunks(document_chunks, id) = <<>>
        /\ \A query \in {<<"x">>, <<"z">>, <<"what", "x">>} :
              hybrid_search(document_chunks, query, RETRIEVER_K, id) = <<>>

\* a document whose 6 chunks were stored has been deleted, while the chunks of
\* another document are still there
C15_Witness ==
    \E r \in Requests :
        /\ Uuid(r, 0) \in DeletedIds
        /\ hist[r].chunkrows = 6
        /\ document_chunks # {}

\* what a step that records a call of delete_document_by_id has done
C16_Step ==
    Len(del') = Len(del) + 1 =>
        LET e == del'[Len(del')]
            others(rows) == {d \in rows : d.id # e.id}
            otherChunks(rows) == {c \in rows : c.document_id # e.id}
        IN  /\ ~e.raised =>
                 /\ e.deleted <=> \E d \in documents : d.id = e.id
                 /\ ~ \E d \in documents' : d.id = e.id
                 /\ e.code = IF e.deleted THEN "DOCUMENT_DELETED" ELSE "DOCUMENT_NOT_FOUND"
            /\ others(documents') = others(documents)
            /\ otherChunks(document_chunks') = otherChunks(document_chunks)

\* C16: delete_document_by_id(id) returns true exactly when a row with that id was
\* there, and the row is gone afterwards; a later call with the same id returns
\* false; no call changes a document or a chunk of another id.
C16_DeleteReturnsWhetherRemoved ==
    /\ [](\A k, l \in 1..Len(del) :
            (k < l /\ del[k].id = del[l].id /\ del[k].deleted) => ~del[l].deleted)
    /\ [][C16_Step]_vars

\* the same id was deleted twice, true then false, and another document with
\* its chunk is in the store
C16_Witness ==
    /\ Len(del) = 2
    /\ del[1].id = del[2].id /\ del[1].deleted /\ ~del[2].deleted /\ ~del[2].raised
    /\ \E d \in documents : d.id # del[1].id /\ d.status = "completed"
    /\ \E c \in document_chunks : c.document_id # del[1].id

(***************************************************************************)
(* The chat and summary routes and the generators stream_rag and           *)
(* stream_summary, over a store left by earlier uploads.  A message is a   *)
(* sequence of tokens (a word, a whitespace character, one of the patterns *)
(* the route looks for in some letter case, a run of 2000 letters); a      *)
(* delta of the generation backend is a sequence of characters.            *)
(***************************************************************************)
MaxDeltas == 3

MAX_MESSAGE_LENGTH == 2000

\* number of characters of a message token
TokLen(c) ==
    CASE c \in {"<script", "<SCRIPT", "<Script"} -> 7
      [] c \in {"javascript:", "JavaScript:"} -> 11
      [] c \in {"onerror=", "ONERROR="} -> 8
      [] c = "what" -> 4
      [] c = "x*2000" -> 2000
      [] OTHER -> 1

RECURSIVE MessageLen(_)
MessageLen(m) == IF m = <<>> THEN 0 ELSE TokLen(Head(m)) + MessageLen(Tail(m))

\* str.lower() on a message token
LowerMsgTok(c) ==
    CASE c \in {"<SCRIPT", "<Script"} -> "<script"
      [] c = "JavaScript:" -> "javascript:"
      [] c = "ONERROR=" -> "onerror="
      [] OTHER -> c

\* whitespace of str.strip()
MsgSpace == {" ", "\t", "\n"}

\* ChatRequest.message: Field(min_length=1, max_length=2000)
ChatRequestValid(message) ==
    MessageLen(message) >= 1 /\ MessageLen(message) <= MAX_MESSAGE_LENGTH

\* not request.message or not request.message.strip()
EmptyMessage(message) == \A i \in 1..Len(message) : message[i] \in MsgSpace

\* variant of Dangerous: the patterns are looked for in the message as sent
Dangerous_m(message) ==
    \E i \in 1..Len(message) : message[i] \in {"<script", "javascript:", "onerror="}

\* any(pattern in request.message.lower() for pattern in dangerous_patterns)
Dangerous(message) ==
    \E i \in 1..Len(message) :
        LowerMsgTok(message[i]) \in {"<script", "javascript:", "onerror="}

\* the messages sent
Messages ==
    { <<>>, <<" ">>, <<" ", "\t">>, <<"x">>, <<"what", " ", "z">>,
      <<"x", " ", "<SCRIPT">>, <<"JavaScript:", "x">>, <<"onerror=">>,
      <<"x*2000", "x">> }

\* what an upload by request r of file f under `filename` left in the store: the
\* document row, with its chunks once index_chunks got to mark_document_completed
Stored(r, filename, f, completed) ==
    LET chunks == split_documents(load_document(filename, f))
        row == DocumentRow(Uuid(r, 0), filename, FileType(filename), FileSize(f),
                           <<"sha256", f>>)
    IN  [documents |-> IF completed THEN mark_document_completed({row}, Uuid(r, 0))
                       ELSE {row},
         document_chunks |->
             IF completed
             THEN ChunkRows(Uuid(r, 0), chunks,
                            [k \in 1..Len(chunks) |-> Vec(chunks[k].page_content)])
             ELSE {}]

\* the stores the requests run against: empty; one document completed; one
\* document left at 'processing' without chunks; two documents completed
Stores ==
    LET d1 == Stored("r1", <<"a", ".", "pdf">>, ThreePages, TRUE)
        p1 == Stored("r1", <<"a", ".", "pdf">>, ThreePages, FALSE)
        d2 == Stored("r2", <<"b", ".", "txt">>, OnePage, TRUE)
    IN  { [documents |-> {}, document_chunks |-> {}], d1, p1,
          [documents |-> d1.documents \union d2.documents,
           document_chunks |-> d1.document_chunks \union d2.document_chunks] }

\* the requests: POST /api/chat, POST /api/chat/{document_id},
\* POST /api/chat/{document_id}/summary
ChatRequests ==
    { Rq("chat", m, Unset, "normal", "route") : m \in Messages }
    \union { Rq("chat_with_document", m, Uuid(r, 0), "normal", "route") :
             m \in Messages, r \in Requests }
    \union { Rq("summarize_document", <<>>, Uuid(r, 0), l, "route") :
             r \in Requests, l \in {"concise", "normal", "comprehensive"} }

InitChat ==
    /\ up = [r \in Requests |-> [filename |-> NoName, bytes |-> <<>>]]
    /\ pc = [r \in Requests |-> "off"]
    /\ loc = [r \in Requests |-> LocInit]
    /\ res = [r \in Requests |-> NoResult]
    /\ hist = [r \in Requests |-> HistInit]
    /\ \E s \in Stores : documents = s.documents /\ document_chunks = s.document_chunks
    /\ disk = [n \in {} |-> <<>>]
    /\ san = SanIdle
    /\ emb = EmbIdle
    /\ del = <<>>
    /\ rq \in [Queries -> ChatRequests]
    /\ fx = FxIdle
    /\ tpl = TplIdle
    /\ rl = RlIdle

\* the route raises HTTPException or the request fails validation
Reject(q, status, code) ==
    rq' = [rq EXCEPT ![q].pc = "done", ![q].status = status, ![q].code = code]

\* the route returns StreamingResponse(...)
StartStream(q, trace) ==
    rq' = [rq EXCEPT ![q].pc = "get_chat_model", ![q].status = 200,
                     ![q].code = "STREAMING", ![q].trace = trace]

\* variant of NotFound: the route takes every id for a stored one
NotFound_m(docs, document_id) == FALSE

\* if not document_exists(document_id)
NotFound(docs, document_id) == ~document_exists(docs, document_id)

\* routes chat, chat_with_document and summarize_document up to their return
ChatRoute(q) ==
    /\ rq[q].pc = "route"
    /\ LET r == rq[q]
           exists == Append(r.trace, "document_exists")
       IN  IF r.kind # "summarize_document" /\ ~ChatRequestValid(r.message)
           THEN Reject(q, 422, "VALIDATION_ERROR")
           ELSE IF r.kind # "summarize_document" /\ EmptyMessage(r.message)
           THEN Reject(q, 400, "CHAT_EMPTY_MESSAGE")
           ELSE IF r.kind # "summarize_document" /\ Dangerous(r.message)
           THEN Reject(q, 400, "CHAT_INVALID_INPUT")
           ELSE IF r.kind = "chat"
           THEN StartStream(q, r.trace)
           ELSE \E ok \in BOOLEAN :
                  IF ~ok
                  THEN rq' = [rq EXCEPT ![q].pc = "done", ![q].status = 500,
                                        ![q].code = "DatabaseError",
                                        ![q].trace = exists, ![q].fault = TRUE]
                  ELSE IF NotFound(documents, r.document_id)
                  THEN rq' = [rq EXCEPT ![q].pc = "done", ![q].status = 404,
                                        ![q].code = "DOCUMENT_NOT_FOUND",
                                        ![q].trace = exists]
                  ELSE StartStream(q, exists)
    /\ UNCHANGED <<up, pc, loc, res, hist, documents, document_chunks, disk, san, emb, del, fx, tpl, rl>>

\* the generator ends by an exception of a collaborator
StreamRaise(q, call) ==
    rq' = [rq EXCEPT ![q].pc = "done", ![q].fault = TRUE, ![q].trace = Append(@, call)]

\* stream_rag lines 67-70, stream_summary line 140: model = get_chat_model()
GetChatModel(q) ==
    /\ rq[q].pc = "get_chat_model"
    /\ LET gen == IF rq[q].kind = "summarize_document" THEN "stream_summary" ELSE "stream_rag"
       IN  \E ok \in BOOLEAN :
             IF ok
             THEN rq' = [rq EXCEPT ![q].pc = "retrieve",
                                   ![q].trace = @ \o <<gen, "get_chat_model">>]
             ELSE rq' = [rq EXCEPT ![q].pc = "done", ![q].fault = TRUE,
                                   ![q].trace = @ \o <<gen, "get_chat_model">>]
    /\ UNCHANGED <<up, pc, loc, res, hist, documents, document_chunks, disk, san, emb, del, fx, tpl, rl>>

\* variant of NoResults: the test never finds the list empty
NoResults_m(results) == FALSE

\* if not results / if not chunks
NoResults(results) == results = <<>>

\* stream_rag line 73: results = hybrid_search(query, k, document_id);
\* stream_summary line 143: chunks = get_all_document_chunks(document_id)
Retrieve(q) ==
    /\ rq[q].pc = "retrieve"
    /\ LET r == rq[q]
           call == IF r.kind = "summarize_document" THEN "get_all_document_chunks"
                   ELSE "hybrid_search"
           results == IF r.kind = "summarize_document"
                      THEN get_all_document_chunks(document_chunks, r.document_id)
                      ELSE hybrid_search(document_chunks, r.message, RETRIEVER_K,
                                         r.document_id)
       IN  \E ok \in BOOLEAN :
             IF ok
             THEN rq' = [rq EXCEPT ![q].results = results, ![q].retrieved = TRUE,
                                   ![q].trace = Append(@, call),
                                   ![q].pc = IF NoResults(results) THEN "empty" ELSE "prompt"]
             ELSE StreamRaise(q, call)
    /\ UNCHANGED <<up, pc, loc, res, hist, documents, document_chunks, disk, san, emb, del, fx, tpl, rl>>

\* stream_rag line 77, stream_summary line 151: the fixed answer
Sentinel(kind) ==
    IF kind = "summarize_document"
    THEN "Unable to generate summary: no content found for this document."
    ELSE "I cannot find this information in the provided text."

\* lines 75-78 and 149-152: yield the fixed answer; return
YieldSentinel(q) ==
    /\ rq[q].pc = "empty"
    /\ rq' = [rq EXCEPT ![q].yielded = Append(@, Sentinel(rq[q].kind)), ![q].pc = "done"]
    /\ UNCHANGED <<up, pc, loc, res, hist, documents, document_chunks, disk, san, emb, del, fx, tpl, rl>>

\* meta.get(key, default)
MetaGet(meta, key, default) == IF key \in DOMAIN meta THEN meta[key] ELSE default

\* extract_sources: name:page:idx of every chunk
extract_sources(chunks) ==
    [i \in 1..Len(chunks) |->
        LET meta == chunks[i].metadata
            source == MetaGet(meta, "source", <<>>)
        IN  <<IF source = <<>> THEN <<"unknown">> ELSE PathName(source),
              MetaGet(meta, "page", 0), MetaGet(meta, "chunkIndex", 0)>>]

\* build_context: the chunks numbered from 1, in the order given
build_context(chunks) ==
    [i \in 1..Len(chunks) |-> [label |-> i, text |-> chunks[i].page_content]]

\* lines 80-98 and 154-162: sources, context and prompt; model.stream(prompt) is called
BuildPrompt(q) ==
    /\ rq[q].pc = "prompt"
    /\ LET r == rq[q]
       IN  rq' = [rq EXCEPT
                 ![q].sources = IF r.kind = "summarize_document" THEN <<>>
                                ELSE extract_sources(r.results),
                 ![q].prompt = IF r.kind = "summarize_document"
                               THEN <<"summary", r.length, build_context(r.results)>>
                               ELSE <<"rag_chat", build_context(r.results), r.message>>,
                 ![q].trace = Append(@, "model.stream"),
                 ![q].pc = "stream"]
    /\ UNCHANGED <<up, pc, loc, res, hist, documents, document_chunks, disk, san, emb, del, fx, tpl, rl>>

\* the content of the chunks the generation backend may send
Deltas == { <<>>, <<" ">>, <<"\n", "w">>, <<"w">>, <<"5", " ", "%">>, <<" ", "w">>,
            <<"\t", "w">> }

\* text.lstrip("\n\r ")
RECURSIVE LStripChars(_)
LStripChars(s) ==
    IF s # <<>> /\ Head(s) \in {"\n", "\r", " "} THEN LStripChars(Tail(s)) ELSE s

\* position i of s lies in a run of whitespace that follows a digit and is
\* followed by a percent sign
\* variant of DigitBefore: any character may stand before the whitespace
DigitBefore_m(s, i) == TRUE

RECURSIVE DigitBefore(_, _)
DigitBefore(s, i) ==
    IF i = 0 THEN FALSE
    ELSE IF s[i] \in MsgSpace THEN DigitBefore(s, i - 1)
    ELSE s[i] = "5"

RECURSIVE PercentAfter(_, _)
PercentAfter(s, i) ==
    IF i > Len(s) THEN FALSE
    ELSE IF s[i] \in MsgSpace THEN PercentAfter(s, i + 1)
    ELSE s[i] = "%"

\* re.sub(r"(\d+)\s+%", r"\1%", text)
RECURSIVE FixFrom(_, _)
FixFrom(s, i) ==
    IF i > Len(s) THEN <<>>
    ELSE IF s[i] \in MsgSpace /\ DigitBefore(s, i) /\ PercentAfter(s, i)
    THEN FixFrom(s, i + 1)
    ELSE <<s[i]>> \o FixFrom(s, i + 1)

fix_percent_spacing(text) == FixFrom(text, 1)

\* variant of FirstDelta: every delta counts as the first
FirstDelta_m(total, text) == TRUE

\* total == len(text), after total += len(text)
FirstDelta(total, text) == total = Len(text)

\* lines 100-111 and 165-176: one pass of the loop over model.stream(prompt);
\* raw keeps the non-empty deltas as the model sent them
StreamDelta(q) ==
    /\ rq[q].pc = "stream"
    /\ rq[q].deltas < MaxDeltas
    /\ \E text \in Deltas :
         LET total == rq[q].total + Len(text)
             out == IF FirstDelta(total, text) THEN LStripChars(text) ELSE text
         IN  IF text = <<>>
             THEN rq' = [rq EXCEPT ![q].deltas = @ + 1]
             ELSE rq' = [rq EXCEPT ![q].deltas = @ + 1, ![q].total = total,
                                   ![q].yielded = Append(@, fix_percent_spacing(out)),
                                   ![q].raw = Append(@, text)]
    /\ UNCHANGED <<up, pc, loc, res, hist, documents, document_chunks, disk, san, emb, del, fx, tpl, rl>>

\* model.stream(prompt) is exhausted, or raises
StreamEnd(q) ==
    /\ rq[q].pc = "stream"
    /\ \E ok \in BOOLEAN :
         rq' = [rq EXCEPT ![q].pc = "done", ![q].fault = ~ok]
    /\ UNCHANGED <<up, pc, loc, res, hist, documents, document_chunks, disk, san, emb, del, fx, tpl, rl>>

NextChat ==
    \E q \in Queries :
        \/ ChatRoute(q)
        \/ GetChatModel(q)
        \/ Retrieve(q)
        \/ YieldSentinel(q)
        \/ BuildPrompt(q)
        \/ StreamDelta(q)
        \/ StreamEnd(q)

SpecChat == InitChat /\ [][NextChat]_vars

\* call `name` was made by request q
Called(q, name) == \E i \in 1..Len(rq[q].trace) : rq[q].trace[i] = name

\* C14: when hybrid_search (stream_rag) or get_all_document_chunks (stream_summary)
\* returned no chunk, the generator yields the fixed sentence of its kind as its
\* only item and ends, and the generation backend is neither streamed from nor
\* invoked for the request.
C14_EmptyRetrievalYieldsSentinel ==
    \A q \in Queries :
        (rq[q].retrieved /\ rq[q].results = <<>>) =>
            /\ rq[q].pc \in {"empty", "done"}
            /\ ~Called(q, "model.stream") /\ ~Called(q, "model.invoke")
            /\ rq[q].pc = "empty" => rq[q].yielded = <<>>
            /\ rq[q].pc = "done" =>
                 rq[q].yielded =
                    IF rq[q].kind = "summarize_document"
                    THEN <<"Unable to generate summary: no content found for this document.">>
                    ELSE <<"I cannot find this information in the provided text.">>

\* a chat scoped to a document that is in the store without chunks ended with
\* the fixed sentence
C14_Witness ==
    \E q \in Queries :
        /\ rq[q].kind = "chat_with_document" /\ rq[q].pc = "done"
        /\ \E d \in documents : d.id = rq[q].document_id
        /\ rq[q].retrieved /\ rq[q].results = <<>>
        /\ rq[q].yielded = <<"I cannot find this information in the provided text.">>

\* the message is empty, all whitespace, or holds one of the three patterns in
\* some letter case
InvalidMessage(m) ==
    \/ \A i \in 1..Len(m) : m[i] \in {" ", "\t", "\n"}
    \/ \E i \in 1..Len(m) : m[i] \in {"<script", "<SCRIPT", "<Script", "javascript:",
                                      "JavaScript:", "onerror=", "ONERROR="}

\* C17: a chat request, scoped to a document or not, whose message is empty,
\* whitespace only or holds '<script', 'javascript:' or 'onerror=' in any letter
\* case is rejected with an invalid-input error, and nothing is called for it:
\* neither document_exists, nor the generator, retrieval or generation.
C17_InvalidMessageRejected ==
    \A q \in Queries :
        (rq[q].kind \in {"chat", "chat_with_document"} /\ InvalidMessage(rq[q].message)) =>
            /\ rq[q].trace = <<>> /\ rq[q].yielded = <<>> /\ ~rq[q].retrieved
            /\ rq[q].pc \in {"route", "done"}
            /\ rq[q].pc = "done" =>
                 /\ rq[q].status \in {400, 422}
                 /\ rq[q].code \in {"VALIDATION_ERROR", "CHAT_EMPTY_MESSAGE",
                                    "CHAT_INVALID_INPUT"}

\* a chat scoped to a stored document was rejected for '<SCRIPT' in its message
C17_Witness ==
    \E q \in Queries :
        /\ rq[q].kind = "chat_with_document" /\ rq[q].pc = "done"
        /\ rq[q].message = <<"x", " ", "<SCRIPT">>
        /\ \E d \in documents : d.id = rq[q].document_id
        /\ rq[q].code = "CHAT_INVALID_INPUT" /\ rq[q].trace = <<>>

\* request q names a document id that is not in the store, and its route has run
\* without a failure of the store
UnknownDocument(q) ==
    /\ rq[q].kind \in {"chat_with_document", "summarize_document"}
    /\ ~ \E d \in documents : d.id = rq[q].document_id
    /\ rq[q].pc # "route" /\ ~rq[q].fault

\* the answer DOCUMENT_NOT_FOUND, with no generator run
AnsweredNotFound(q) ==
    /\ rq[q].pc = "done" /\ rq[q].status = 404 /\ rq[q].code = "DOCUMENT_NOT_FOUND"
    /\ ~Called(q, "stream_rag") /\ ~Called(q, "stream_summary")
    /\ rq[q].yielded = <<>>

ChunkLengths == {0, 1, 500, 1999, 2000, 2001, 3000, 9999, 10000, 10001, 20000}
ChunkBases == {1, 100, 374, 375, 376, 499, 500, 666, 667, 668, 800, 1000, 1001}

InitChunkSize ==
    /\ up = [r \in Requests |-> [filename |-> NoName, bytes |-> <<>>]]
    /\ pc = [r \in Requests |-> "off"]
    /\ loc = [r \in Requests |-> LocInit]
    /\ res = [r \in Requests |-> NoResult]
    /\ hist = [r \in Requests |-> HistInit]
    /\ documents = {}
    /\ document_chunks = {}
    /\ disk = [n \in {} |-> <<>>]
    /\ san = SanIdle
    /\ emb = EmbIdle
    /\ del = <<>>
    /\ rq = RqIdle
    /\ fx \in { [pc |-> "call", length |-> l, base |-> b, out |-> 0] :
                l \in ChunkLengths, b \in ChunkBases }
    /\ tpl = TplIdle
    /\ rl = RlIdle

\* size = choose_chunk_size(length, base)
ChooseChunkSize ==
    /\ fx.pc = "call"
    /\ fx' = [fx EXCEPT !.out = choose_chunk_size(fx.length, fx.base), !.pc = "done"]
    /\ UNCHANGED <<up, pc, loc, res, hist, documents, document_chunks, disk, san, emb, del,
                   rq, tpl, rl>>

NextChunkSize == ChooseChunkSize

SpecChunkSize == InitChunkSize /\ [][NextChunkSize]_vars

\* n is the integer part of num * base / 10
IntPartOfTenths(n, num, base) == 10 * n <= num * base /\ num * base < 10 * (n + 1)

Quiescent ==
    /\ up = [r \in Requests |-> [filename |-> NoName, bytes |-> <<>>]]
    /\ pc = [r \in Requests |-> "off"]
    /\ loc = [r \in Requests |-> LocInit]
    /\ res = [r \in Requests |-> NoResult]
    /\ hist = [r \in Requests |-> HistInit]
    /\ documents = {}
    /\ document_chunks = {}
    /\ disk = [n \in {} |-> <<>>]
    /\ san = SanIdle
    /\ emb = EmbIdle
    /\ del = <<>>
    /\ rq = RqIdle

\* texts of len characters of which lead at the start and trail at the end are
\* whitespace: around min_chars, around 0.8 * 640 = 512, and in each size band
UnitTexts ==
    { [len |-> 0, lead |-> 0, trail |-> 0], [len |-> 5, lead |-> 5, trail |-> 0],
      [len |-> 99, lead |-> 0, trail |-> 0], [len |-> 100, lead |-> 0, trail |-> 0],
      [len |-> 101, lead |-> 1, trail |-> 2], [len |-> 103, lead |-> 2, trail |-> 1],
      [len |-> 512, lead |-> 0, trail |-> 0], [len |-> 513, lead |-> 0, trail |-> 0],
      [len |-> 515, lead |-> 2, trail |-> 1], [len |-> 640, lead |-> 0, trail |-> 0],
      [len |-> 641, lead |-> 0, trail |-> 0], [len |-> 2000, lead |-> 0, trail |-> 0],
      [len |-> 12000, lead |-> 0, trail |-> 0] }

\* the unit number i of a list, with the text x
Unit(x, i) ==
    [page_content |-> [t |-> "u", page |-> i, start |-> 0, len |-> x.len,
                       lead |-> x.lead, trail |-> x.trail],
     metadata |-> [source |-> <<"f">>, page |-> i, category |-> "NarrativeText",
                   chunk_index |-> NoIndex]]

UnitLists ==
    {<<>>} \cup { <<Unit(x, 1)>> : x \in UnitTexts }
           \cup { <<Unit(x, 1), Unit(y, 2)>> : x \in UnitTexts, y \in UnitTexts }

InitSplit ==
    /\ Quiescent
    /\ fx \in { [pc |-> "call", docs |-> docs, out |-> <<>>] : docs \in UnitLists }
    /\ tpl = TplIdle
    /\ rl = RlIdle

\* chunks = split_documents(docs)
SplitDocuments ==
    /\ fx.pc = "call"
    /\ fx' = [fx EXCEPT !.out = split_documents(fx.docs), !.pc = "done"]
    /\ UNCHANGED <<up, pc, loc, res, hist, documents, document_chunks, disk, san, emb, del,
                   rq, tpl, rl>>

NextSplit == SplitDocuments

SpecSplit == InitSplit /\ [][NextSplit]_vars

\* the length of a unit's text without the whitespace at its ends
TrimmedLen(d) == d.page_content.len - d.page_content.lead - d.page_content.trail

\* the unit with its text trimmed
Trimmed(d) ==
    [page_content |-> Text(d.page_content.t, d.page_content.page, d.page_content.lead,
                           TrimmedLen(d)),
     metadata |-> d.metadata]

\* the chunks of the output that come from the unit d
ChunksOf(d, out) == SelectSeq(out, LAMBDA c : c.metadata.page = d.metadata.page)

\* C22: split_documents drops every unit whose trimmed length is below
\* min_chars; a surviving unit whose length is at most 0.8 times its target size
\* gives exactly one chunk with the unit's text and metadata; only a longer unit
\* goes through the splitter; and the chunks keep the order of the units.
C22_DropAndPassThrough ==
    fx.pc = "done" =>
        /\ \A i \in 1..Len(fx.docs) :
             LET d == fx.docs[i]
                 n == TrimmedLen(d)
                 size == choose_chunk_size(n, BASE_CHUNK)
                 cs == ChunksOf(d, fx.out)
             IN  /\ n < MIN_CHARS => cs = <<>>
                 /\ (n >= MIN_CHARS /\ 10 * n <= 8 * size) => cs = <<Trimmed(d)>>
                 /\ (n >= MIN_CHARS /\ 10 * n > 8 * size) =>
                      cs = SplitFrom(Trimmed(d), size, OVERLAP, 0)
        /\ \A j \in 1..Len(fx.out) : \A k \in j..Len(fx.out) :
             fx.out[j].metadata.page <= fx.out[k].metadata.page

\* a unit of 515 characters of which 3 are whitespace at the ends came out as one
\* chunk of 512, and the unit of 99 characters after it was dropped
C22_Witness ==
    /\ fx.pc = "done"
    /\ Len(fx.docs) = 2
    /\ fx.docs[1].page_content.len = 515
    /\ fx.docs[2].page_content.len = 99
    /\ Len(fx.out) = 1
    /\ fx.out[1].page_content = Text("u", 1, 2, 512)

\* the whitespace at the start of a text
RECURSIVE LeadingSpace(_)
LeadingSpace(s) ==
    IF s # <<>> /\ Head(s) \in MsgSpace \cup {"\r"} THEN <<Head(s)>> \o LeadingSpace(Tail(s))
    ELSE <<>>

\* every non-empty delta of a model stream gave one item, and every delta after the first was
\* forwarded with the whitespace at its start intact
LaterDeltasIntact(q) ==
    /\ Called(q, "model.stream") => Len(rq[q].yielded) = Len(rq[q].raw)
    /\ \A i \in 2..Len(rq[q].raw) :
         /\ rq[q].yielded[i] = fix_percent_spacing(rq[q].raw[i])
         /\ LeadingSpace(rq[q].yielded[i]) = LeadingSpace(rq[q].raw[i])

\* C23 as stated: the first non-empty delta is forwarded without any whitespace
\* at its start, and every later delta with its leading whitespace intact.
C23_FirstDeltaStripped ==
    \A q \in Queries :
        /\ LaterDeltasIntact(q)
        /\ rq[q].raw # <<>> => LeadingSpace(rq[q].yielded[1]) = <<>>

\* C23: the first non-empty delta is forwarded without the newlines, carriage
\* returns and spaces at its start (a tab stays), and every later delta with
\* its leading whitespace intact, whatever came before it.
C23_FirstDeltaStrippedOfNewlinesAndSpaces ==
    \A q \in Queries :
        /\ LaterDeltasIntact(q)
        /\ rq[q].raw # <<>> =>
             /\ rq[q].yielded[1] = fix_percent_spacing(LStripChars(rq[q].raw[1]))
             /\ rq[q].yielded[1] = <<>> \/ Head(rq[q].yielded[1]) \notin {"\n", "\r", " "}

\* after an empty delta, the first delta "\nw" was forwarded as "w" and the
\* later delta " w" as it was
C23_Witness ==
    \E q \in Queries :
        /\ rq[q].deltas = 3
        /\ rq[q].raw = << <<"\n", "w">>, <<" ", "w">> >>
        /\ rq[q].yielded = << <<"w">>, <<" ", "w">> >>

(***************************************************************************)
(* hybrid_search applied to a query, a k and a document_id over a store.   *)
(***************************************************************************)
\* values of k: none, fewer than, as many as and more than the chunks stored
SearchK == {0, 1, 2, 5, 8}

\* queries whose words are those of the first file, of the second, of neither
SearchQueries == { <<"x">>, <<"z">>, <<"other">> }

InitHybrid ==
    /\ Quiescent
    /\ fx \in { [pc |-> "semantic", chunks |-> s.document_chunks, query |-> q, k |-> k,
                 document_id |-> d, semantic |-> <<>>, ranked |-> FALSE, out |-> <<>>] :
                s \in Stores, q \in SearchQueries, k \in SearchK,
                d \in {Unset} \cup { Uuid(r, 0) : r \in Requests } }
    /\ tpl = TplIdle
    /\ rl = RlIdle

\* semantic = semantic_search(query, k, document_id); if not semantic: return []
HybridSemantic ==
    /\ fx.pc = "semantic"
    /\ LET semantic == semantic_search(fx.chunks, fx.query, fx.k, fx.document_id)
       IN  fx' = [fx EXCEPT !.semantic = semantic,
                            !.pc = IF semantic = <<>> THEN "done" ELSE "bm25"]
    /\ UNCHANGED <<up, pc, loc, res, hist, documents, document_chunks, disk, san, emb, del,
                   rq, tpl, rl>>

\* return BM25Retriever.from_documents(semantic, k=k).invoke(query)
HybridRank ==
    /\ fx.pc = "bm25"
    /\ fx' = [fx EXCEPT !.out = Bm25Top(fx.semantic, fx.query, fx.k), !.ranked = TRUE,
                        !.pc = "done"]
    /\ UNCHANGED <<up, pc, loc, res, hist, documents, document_chunks, disk, san, emb, del,
                   rq, tpl, rl>>

NextHybrid == HybridSemantic \/ HybridRank

SpecHybrid == InitHybrid /\ [][NextHybrid]_vars

\* the vector stage found nothing: no row of the store is of the document asked
\* for (or the store is empty, or k is 0)
NoCandidate ==
    \/ fx.k = 0
    \/ fx.document_id = Unset /\ fx.chunks = {}
    \/ fx.document_id # Unset /\ ~ \E row \in fx.chunks : row.document_id = fx.document_id

\* C24: hybrid_search returns the empty list, without a lexical pass, whenever
\* the vector stage returns nothing; otherwise it returns at most k chunks, each
\* one of the stage-1 candidates, a stored chunk, and of the document asked for
\* when document_id is given.
C24_HybridWithinCandidates ==
    fx.pc = "done" =>
        /\ NoCandidate <=> fx.semantic = <<>>
        /\ fx.semantic = <<>> => fx.out = <<>> /\ ~fx.ranked
        /\ Len(fx.semantic) <= fx.k
        /\ Len(fx.out) <= fx.k
        /\ \A i \in 1..Len(fx.out) :
             /\ \E j \in 1..Len(fx.semantic) : fx.semantic[j] = fx.out[i]
             /\ \E row \in fx.chunks : row.id = fx.out[i].metadata.id
                                        /\ row.content = fx.out[i].page_content
             /\ fx.document_id # Unset => fx.out[i].metadata.document_id = fx.document_id
             /\ \A j \in 1..Len(fx.out) : fx.out[j] = fx.out[i] => j = i

\* over the two documents, k = 2 and the first document asked for: two of its six
\* chunks came back
C24_Witness ==
    /\ fx.pc = "done"
    /\ fx.ranked
    /\ fx.k = 2
    /\ fx.document_id = Uuid("r1", 0)
    /\ \E row \in fx.chunks : row.document_id = Uuid("r2", 0)
    /\ Len(fx.out) = 2
    /\ \A i \in 1..2 : fx.out[i].metadata.document_id = Uuid("r1", 0)

\* C25: the citation of every retrieved chunk is the basename of its source, its
\* page and the chunk_index it was stored with.
C25_CitationCarriesChunkIndex ==
    \A q \in Queries :
        (rq[q].pc \in {"stream", "done"} /\ rq[q].kind # "summarize_document"
         /\ Called(q, "model.stream")) =>
            /\ Len(rq[q].sources) = Len(rq[q].results)
            /\ \A i \in 1..Len(rq[q].results) :
                 LET meta == rq[q].results[i].metadata
                 IN  /\ \E row \in document_chunks :
                          row.id = meta.id /\ row.chunk_index = meta.chunk_index
                     /\ rq[q].sources[i] = <<PathName(meta.source), meta.page, meta.chunk_index>>

(***************************************************************************)
(* fix_percent_spacing applied to a text, and to its own result.           *)
(***************************************************************************)
MaxTextLen == 5

\* a digit, two kinds of whitespace, the percent sign and a letter
PercentAlphabet == {"5", " ", "\n", "%", "w"}

InitPercent ==
    /\ Quiescent
    /\ fx \in { [pc |-> "call", text |-> t, once |-> <<>>, twice |-> <<>>] :
                t \in BoundedSeq(PercentAlphabet, MaxTextLen) }
    /\ tpl = TplIdle
    /\ rl = RlIdle

\* once = fix_percent_spacing(text)
FixOnce ==
    /\ fx.pc = "call"
    /\ fx' = [fx EXCEPT !.once = fix_percent_spacing(fx.text), !.pc = "again"]
    /\ UNCHANGED <<up, pc, loc, res, hist, documents, document_chunks, disk, san, emb, del,
                   rq, tpl, rl>>

\* twice = fix_percent_spacing(once)
FixTwice ==
    /\ fx.pc = "again"
    /\ fx' = [fx EXCEPT !.twice = fix_percent_spacing(fx.once), !.pc = "done"]
    /\ UNCHANGED <<up, pc, loc, res, hist, documents, document_chunks, disk, san, emb, del,
                   rq, tpl, rl>>

NextPercent == FixOnce \/ FixTwice

SpecPercent == InitPercent /\ [][NextPercent]_vars

\* position p of s is whitespace between a digit and a percent sign, with
\* nothing but whitespace between the two
InOccurrence(s, p) ==
    \E i \in 1..(p - 1) : \E k \in (p + 1)..Len(s) :
        /\ s[i] = "5"
        /\ s[k] = "%"
        /\ \A m \in (i + 1)..(k - 1) : s[m] \in MsgSpace

HasOccurrence(s) == \E p \in 1..Len(s) : InOccurrence(s, p)

\* s without the whitespace of its occurrences, from position i on
RECURSIVE WithoutOccurrences(_, _)
WithoutOccurrences(s, i) ==
    IF i > Len(s) THEN <<>>
    ELSE (IF InOccurrence(s, i) THEN <<>> ELSE <<s[i]>>) \o WithoutOccurrences(s, i + 1)

\* C26: fix_percent_spacing turns every run of digits, whitespace and '%' into
\* the digits followed at once by '%', leaves a text without such a run
\* unchanged, and applying it twice equals applying it once.
C26_PercentSpacingIdempotent ==
    /\ fx.pc \in {"again", "done"} =>
         /\ fx.once = WithoutOccurrences(fx.text, 1)
         /\ ~HasOccurrence(fx.once)
         /\ ~HasOccurrence(fx.text) => fx.once = fx.text
    /\ fx.pc = "done" => fx.twice = fx.once

\* "55 %" became "55%" and stayed so
C26_Witness ==
    /\ fx.pc = "done"
    /\ fx.text = <<"5", "5", " ", "%">>
    /\ fx.once = <<"5", "5", "%">>
    /\ fx.twice = <<"5", "5", "%">>

(***************************************************************************)
(* PromptRegistry: the template cache, its two getters and clear_cache.    *)
(***************************************************************************)
MaxPromptCalls == 4

SummaryLengths == {"concise", "normal", "comprehensive"}

\* variant of SummaryKey: one key for every length
SummaryKey_m(length) == <<"summary">>

\* cache_key = f"summary_{length.value}"
SummaryKey(length) == <<"summary", length>>

\* _get_summary_prompt_text: the prompt text defined for a length
SummaryText(length) ==
    CASE length = "concise" -> "SUMMARY_CONCISE"
      [] length = "normal" -> "SUMMARY_NORMAL"
      [] length = "comprehensive" -> "SUMMARY_COMPREHENSIVE"

\* ChatPromptTemplate.from_template(text): the n-th object built in the process
FromTemplate(n, text) == [id |-> n, text |-> text]

\* _templates = {}; log keeps what every request was given, with the number of
\* clear_cache calls made before it
InitPrompt ==
    /\ Quiescent
    /\ fx = FxIdle
    /\ tpl = [pc |-> "on", templates |-> <<>>, built |-> 0, clears |-> 0, calls |-> 0,
              log |-> <<>>]
    /\ rl = RlIdle

\* if key not in cls._templates: cls._templates[key] = from_template(text)
\* return cls._templates[key]
GetTemplate(key, text, asked) ==
    LET t == tpl.templates
        hit == key \in DOMAIN t
        obj == IF hit THEN t[key] ELSE FromTemplate(tpl.built + 1, text)
    IN  /\ tpl.pc = "on"
        /\ tpl.calls < MaxPromptCalls
        /\ tpl' = [tpl EXCEPT
                     !.templates = IF hit THEN t
                                   ELSE [k \in DOMAIN t \cup {key} |->
                                            IF k = key THEN obj ELSE t[k]],
                     !.built = IF hit THEN @ ELSE @ + 1,
                     !.calls = @ + 1,
                     !.log = Append(@, [asked |-> asked, got |-> obj, clears |-> tpl.clears])]
        /\ UNCHANGED <<up, pc, loc, res, hist, documents, document_chunks, disk, san, emb,
                       del, rq, fx, rl>>

GetRagChatTemplate == GetTemplate(<<"rag_chat">>, "RAG_CHAT", <<"rag_chat">>)

GetSummaryTemplate(length) ==
    GetTemplate(SummaryKey(length), SummaryText(length), <<"summary", length>>)

\* cls._templates.clear()
ClearCache ==
    /\ tpl.pc = "on"
    /\ tpl.calls < MaxPromptCalls
    /\ tpl' = [tpl EXCEPT !.templates = <<>>, !.clears = @ + 1, !.calls = @ + 1]
    /\ UNCHANGED <<up, pc, loc, res, hist, documents, document_chunks, disk, san, emb, del,
                   rq, fx, rl>>

NextPrompt ==
    \/ GetRagChatTemplate
    \/ \E length \in SummaryLengths : GetSummaryTemplate(length)
    \/ ClearCache

SpecPrompt == InitPrompt /\ [][NextPrompt]_vars

\* the prompt text defined for what was asked
TextAsked(asked) == IF asked = <<"rag_chat">> THEN "RAG_CHAT" ELSE SummaryText(asked[2])

\* C27: two requests for the same template with no clear_cache between them get
\* the identical object; requests for different templates, or with a clear_cache
\* between them, get different objects; and the object a request gets holds the
\* text defined for what it asked.
C27_TemplateCache ==
    tpl.pc = "on" =>
        \A i \in 1..Len(tpl.log) :
            /\ tpl.log[i].got.text = TextAsked(tpl.log[i].asked)
            /\ \A j \in 1..Len(tpl.log) :
                 (tpl.log[i].got = tpl.log[j].got) <=>
                     /\ tpl.log[i].asked = tpl.log[j].asked
                     /\ tpl.log[i].clears = tpl.log[j].clears

\* the concise summary template was asked for twice, then after clear_cache once
\* more: the same object twice, then a new one
C27_Witness ==
    /\ tpl.pc = "on"
    /\ Len(tpl.log) = 3
    /\ \A i \in 1..3 : tpl.log[i].asked = <<"summary", "concise">>
    /\ tpl.log[1].got = tpl.log[2].got
    /\ tpl.log[3].got # tpl.log[2].got
    /\ tpl.log[3].clears = 1

\* C28: of two uploads whose names sanitize to the same name and whose bytes
\* differ, each has the hash of its own bytes recorded, and the text of its own
\* bytes loaded, whatever the interleaving.
C28_OwnBytesHashedAndLoaded ==
    \A r \in Requests : \A o \in Requests \ {r} :
        (/\ loc[r].path # Unset
         /\ sanitize_filename(up[o].filename) = sanitize_filename(up[r].filename)
         /\ up[o].bytes # up[r].bytes) =>
            /\ "hash" \in hist[r].called /\ loc[r].content_hash # Unset =>
                 loc[r].content_hash = <<"sha256", up[r].bytes>>
            /\ "load" \in hist[r].called /\ pc[r] \notin {"load", "done"} =>
                 loc[r].docs = load_document(loc[r].path, up[r].bytes)

\* C29: every item a generator yields from the deltas of the generation backend
\* is a non-empty text.
C29_NoEmptyItem ==
    \A q \in Queries :
        Called(q, "model.stream") =>
            \A i \in 1..Len(rq[q].yielded) : Len(rq[q].yielded[i]) > 0

(***************************************************************************)
(* rate_limit: the token-bucket middleware and its clean-up of old buckets. *)
(***************************************************************************)
MaxRequests == 6

RATE_LIMIT_UPLOAD == 5
RATE_LIMIT_UPLOAD_WINDOW == 60
RATE_LIMIT_CHAT == 10
RATE_LIMIT_CHAT_WINDOW == 60
DEFAULT_RATE_LIMIT == 20
DEFAULT_WINDOW == 60
CLEANUP_INTERVAL == 300

\* RATE_LIMITS.get(path, (DEFAULT_RATE_LIMIT, DEFAULT_WINDOW))
RateLimitOf(path) ==
    IF path = "/api/chat" THEN [limit |-> RATE_LIMIT_CHAT, window |-> RATE_LIMIT_CHAT_WINDOW]
    ELSE IF path = "/api/upload"
    THEN [limit |-> RATE_LIMIT_UPLOAD, window |-> RATE_LIMIT_UPLOAD_WINDOW]
    ELSE [limit |-> DEFAULT_RATE_LIMIT, window |-> DEFAULT_WINDOW]

Ips == {"ip1", "ip2"}
Paths == {"/api/upload", "/test"}

\* the seconds between one request and the next: none, too few for one upload
\* token, enough for the clean-up to run and to find every bucket old
Elapsed == {0, 7, 400}

\* variant of Refill: the bucket is not capped
Refill_m(tokens, elapsed, limit, window) == tokens + elapsed * limit

\* min(limit, tokens + elapsed * (limit / window)); token counts are kept in
\* units of 1/window of a token, so the count is exact
Refill(tokens, elapsed, limit, window) == Min(limit * window, tokens + elapsed * limit)

\* cleanup_old_buckets at time now: every CLEANUP_INTERVAL seconds the buckets
\* not touched for two default windows are deleted
CleanedUp(b, last_cleanup, now) ==
    IF now - last_cleanup < CLEANUP_INTERVAL THEN b
    ELSE [key \in {k \in DOMAIN b : ~(now - b[k].timestamp > DEFAULT_WINDOW * 2)} |-> b[key]]

\* buckets = {}; last_cleanup = time.time()
InitRate ==
    /\ Quiescent
    /\ fx = FxIdle
    /\ tpl = TplIdle
    /\ rl = [pc |-> "on", now |-> 0, last_cleanup |-> 0, buckets |-> <<>>, requests |-> 0,
             last |-> [key |-> <<>>, new |-> FALSE, refilled |-> 0, admitted |-> FALSE,
                       next_called |-> FALSE, limit |-> 0, window |-> 0]]

\* one request from ip to path, `elapsed` seconds after the one before; burst
\* counts the requests a bucket admitted at its current timestamp
RateLimit(ip, path, elapsed) ==
    /\ rl.pc = "on"
    /\ rl.requests < MaxRequests
    /\ LET now == rl.now + elapsed
           cleaned == CleanedUp(rl.buckets, rl.last_cleanup, now)
           key == <<ip, path>>
           limit == RateLimitOf(path).limit
           window == RateLimitOf(path).window
           new == key \notin DOMAIN cleaned
           bucket == IF new THEN [tokens |-> limit * window, timestamp |-> now, burst |-> 0]
                     ELSE cleaned[key]
           refilled == Refill(bucket.tokens, now - bucket.timestamp, limit, window)
           admitted == ~(refilled < window)
           after == [tokens |-> IF admitted THEN refilled - window ELSE refilled,
                     timestamp |-> now,
                     burst |-> (IF now = bucket.timestamp THEN bucket.burst ELSE 0)
                               + (IF admitted THEN 1 ELSE 0)]
       IN  rl' = [rl EXCEPT
                    !.now = now,
                    !.last_cleanup = IF now - rl.last_cleanup < CLEANUP_INTERVAL THEN @ ELSE now,
                    !.buckets = [k \in DOMAIN cleaned \cup {key} |->
                                    IF k = key THEN after ELSE cleaned[k]],
                    !.requests = @ + 1,
                    !.last = [key |-> key, new |-> new, refilled |-> refilled,
                              admitted |-> admitted, next_called |-> admitted,
                              limit |-> limit, window |-> window]]
    /\ UNCHANGED <<up, pc, loc, res, hist, documents, document_chunks, disk, san, emb, del,
                   rq, fx, tpl>>

NextRate == \E ip \in Ips, path \in Paths, elapsed \in Elapsed : RateLimit(ip, path, elapsed)

SpecRate == InitRate /\ [][NextRate]_vars

\* C30: every bucket holds between 0 and limit tokens; the last request was
\* admitted exactly when its refilled count was at least 1, and then took one
\* token and reached the next handler, and otherwise took none and did not reach
\* it; a request to a new bucket was admitted; and no bucket admitted more than
\* limit requests at one time.
C30_TokenBucket ==
    /\ \A key \in DOMAIN rl.buckets :
         LET b == rl.buckets[key]
             c == RateLimitOf(key[2])
         IN  /\ 0 <= b.tokens /\ b.tokens <= c.limit * c.window
             /\ b.burst <= c.limit
    /\ rl.requests > 0 =>
         LET l == rl.last
             b == rl.buckets[l.key]
         IN  /\ l.admitted <=> l.refilled >= l.window
             /\ l.admitted => b.tokens = l.refilled - l.window /\ l.next_called
             /\ ~l.admitted => b.tokens = l.refilled /\ ~l.next_called
             /\ l.new => l.admitted

\* a sixth upload request from one address at the same time as the five before
\* it was rejected, and the bucket stayed empty
C30_Witness ==
    /\ rl.requests = 6
    /\ rl.last.key = <<"ip1", "/api/upload">>
    /\ ~rl.last.admitted
    /\ rl.buckets[rl.last.key].burst = 5
    /\ rl.buckets[rl.last.key].tokens = 0
    /\ rl.now = 0

=============================================================================
